---- MODULE Spec2Model ----
(***************************************************************************)
(* auto-db-backups: the retention evaluator and executor                   *)
(* (internal/storage/retention.go), the streaming backup pipeline          *)
(* (main.go performBackup, internal/backup, internal/compress,             *)
(* internal/encrypt), a whole run over the configured databases            *)
(* (main.go run, internal/config), the AES-256-GCM stream format           *)
(* (internal/encrypt Encrypt / Decrypt), the gzip stage by itself          *)
(* (internal/compress), ApplyRetention call after call, and one run        *)
(* followed through the object keys it writes, lists and deletes, as       *)
(* state machines.                                                         *)
(*                                                                         *)
(* Time is counted in whole hours.  A time.Duration is an int64 count of   *)
(* nanoseconds; for ages that are whole hours, "age > maxAge" is decided   *)
(* by the hour counts alone (see MaxAgeHours).                             *)
(***************************************************************************)
EXTENDS Integers, Sequences, FiniteSets, TLC

VARIABLES
    \* ---- retention (internal/storage) ----
    policy,       \* RetentionPolicy{Days, Count}
    now,          \* the wall clock (time.Now), in hours
    objects,      \* the bucket's objects under the client's prefix
    rpc,          \* position of ApplyRetention: "idle", "deleting", "returned"
    backups,      \* the listing, newest first (determineBackupsToDelete's argument)
    toDelete,     \* ApplyRetention's local: the decision
    di,           \* index in toDelete of the next Delete call
    result,       \* the *RetentionResult being built / returned
    retErr,       \* ApplyRetention's error return
    listCalls,    \* ListBackups calls made by the run
    deleteCalls,  \* keys handed to client.Delete by the run, in order
    evals,        \* results of determineBackupsToDelete on backups so far:
                  \* <<[now, toDelete]>>
    \* ---- one backup attempt (main.go run / performBackup) ----
    cfg,          \* config.Config: [Compression, Encryption]
    ctx,          \* run's context: "live" or "cancelled"
    db,           \* config.DatabaseConfig: [Type]
    pc,           \* position of run / performBackup
    pb,           \* performBackup's locals and results
    proc,         \* the export process (pg_dump, mysqldump, tar)
    streams,      \* the process's stdout pipe and the two io.Pipes
    errPipe,      \* chunks waiting in the process's stderr pipe
    gz,           \* the goroutine started by GzipCompressor.Compress
    enc,          \* the goroutine started by AESEncryptor.Encrypt
    seen,         \* how each reader's reading ended: "none", "eof", "err"
    tempDir,      \* MongoDBExporter's temporary directory
    uploadCalls,  \* R2Client.Upload calls: <<[key, body, ok]>>
    failedDatabases, \* run's failedDatabases
    allBackupKeys,   \* run's allBackupKeys
    \* ---- a whole run over the configured databases (main.go run) ----
    env,          \* the inputs config.Load reads
    run,          \* run's position, loop index, locals and return value
    events,       \* what the run did to the outside, in order
    running,      \* databases whose export process is running
    inflight,     \* databases with an Upload request in flight
    \* ---- the encryptor by itself (internal/encrypt) ----
    ekey,         \* the AESEncryptor's key
    calls,        \* the Encrypt calls made: <<[plain, nonce]>>
    dec,          \* the last Decrypt call: its key, input and result
    \* ---- the compressor by itself (internal/compress) ----
    zsrc,         \* the bytes of the reader given to Compress
    zpos,         \* how many of them io.Copy has read
    zgw,          \* the gzip.Writer: header written, bytes not yet emitted, bytes taken
    ztodo,        \* Writes to the pipe still to come from the current gw call
    zpipe,        \* the io.Pipe between the goroutine and the consumer
    zpc,          \* position of Compress's goroutine
    zout,         \* the bytes the consumer has read
    zend,         \* how the consumer's reading ended: "none", "eof", "err", "closed"
    zn,           \* counts of pipe Writes and Reads; short: a Read took part of a Write
    \* ---- ApplyRetention run after run (one scheduled run after another) ----
    prev,         \* the ApplyRetention call before the current one: what it
                  \* listed and the keys whose Delete failed
    \* ---- one run on one bucket (main.go run, with the keys it writes) ----
    store         \* the databases, the loop position, and what the run asked
                  \* of the bucket so far

rvars == <<policy, now, objects, rpc, backups, toDelete, di, result, retErr,
           listCalls, deleteCalls, evals>>

pvars == <<cfg, ctx, db, pc, pb, proc, streams, errPipe, gz, enc, seen, tempDir,
           uploadCalls, failedDatabases, allBackupKeys>>

uvars == <<env, run, events, running, inflight>>

cvars == <<ekey, calls, dec>>

zvars == <<zsrc, zpos, zgw, ztodo, zpipe, zpc, zout, zend, zn>>

ovars == <<uvars, cvars, zvars, prev, store>>

vars == <<rvars, pvars, ovars>>

----------------------------------------------------------------------------
(* Bounds of the model *)

MaxKeys == 3        \* object keys are 1..MaxKeys
MaxDays == 2        \* ordinary RETENTION_DAYS values are -1..MaxDays
MaxEvals == 2       \* evaluations of one inventory in one behaviour
MaxTicks == 1       \* hours the clock may advance between them
MaxChunks == 3      \* chunks the export process may write to stdout
MaxErrChunks == 3   \* chunks the export process may write to stderr
PipeCap == 2        \* chunks an OS pipe holds before its writer blocks
MaxDbs == 2         \* entries of DATABASES_JSON
MaxDeletes == 1     \* keys one retention run may select
MaxLen == 1         \* bytes of a plaintext
MaxCalls == 2       \* Encrypt calls of one encryptor
MaxSrc == 3         \* bytes of the source given to Compress
MaxRead == 2        \* sizes of the consumer's Read buffers are 1..MaxRead
MaxWindow == 2      \* bytes the gzip.Writer holds at most before it writes a block

(* Program constants *)

HoursPerDay == 24
\* the largest D for which D * 24 * time.Hour fits in an int64 of nanoseconds
MaxDurationDays == 106751
\* 2^64 ns, rounded up to whole hours: what a product that wrapped once lost
WrapHours == 5124096
\* encrypt.KeySize, encrypt.NonceSize, and the length of a GCM tag
KeySize == 32
NonceSize == 12
TagSize == 16

----------------------------------------------------------------------------
(* Helpers *)

Min(a, b) == IF a < b THEN a ELSE b

Range(s) == {s[i] : i \in 1..Len(s)}


----------------------------------------------------------------------------
(* The backup pipeline: data                                               *)

\* a chunk of a stream: raw export bytes, a gzip block holding the chunks it
\* compresses (last: it ends with the gzip trailer), the nonce, or the sealed
\* ciphertext holding the chunks it seals
RawChunk(i) == [kind |-> "raw", body |-> <<i>>, last |-> FALSE]
GzBlock(chunks, isLast) == [kind |-> "gz", body |-> chunks, last |-> isLast]
NonceChunk == [kind |-> "nonce", body |-> <<>>, last |-> FALSE]
SealedChunk(chunks) == [kind |-> "sealed", body |-> chunks, last |-> TRUE]

\* a byte stream between a writer and a reader: what is in flight, how the
\* write side ended ("open", "eof", "err") and whether the read side is closed
\* (failed: the Write in flight was cut short by the reader's Close)
OpenStream == [buf |-> <<>>, w |-> "open", r |-> "open", failed |-> FALSE]

NoProc == [state |-> "none", total |-> 0, left |-> 0, errLeft |-> 0, exit |-> 0,
           killed |-> FALSE]

NoGz == [pc |-> "none", pending |-> <<>>, hdr |-> FALSE, sawErr |-> FALSE]

NoEnc == [pc |-> "none", plain |-> <<>>, sawErr |-> FALSE]

\* (closed: the streams whose Close() performBackup has called, in order)
NoFrame == [buf |-> <<>>, copy |-> "none", aborted |-> FALSE, stderrBytes |-> 0,
            closeErr |-> "none", waited |-> FALSE, err |-> "none", closed |-> <<>>]

NoKey == [str |-> "empty", b64 |-> TRUE, len |-> 0]

NoRun == [pc |-> "unused", cfg |-> [KeyLen |-> 0, Retention |-> FALSE, Databases |-> <<>>],
          i |-> 1, err |-> "none", failed |-> <<>>, keys |-> <<>>, left |-> 0,
          ret |-> "none"]

RunUnused ==
    /\ env = [Key |-> NoKey, Valid |-> TRUE, Retention |-> FALSE, Databases |-> <<>>]
    /\ run = NoRun
    /\ events = <<>>
    /\ running = {}
    /\ inflight = {}

NoDecrypt == [call |-> 0, key |-> 0, flipped |-> 0, cut |-> 0, input |-> <<>>,
              opened |-> FALSE, err |-> FALSE, out |-> <<>>]

CryptoUnused ==
    /\ ekey = 0
    /\ calls = <<>>
    /\ dec = NoDecrypt

NoPipe == [buf |-> <<>>, busy |-> FALSE, failed |-> FALSE, w |-> "open", r |-> "open"]

NoWriter == [hdr |-> FALSE, pending |-> <<>>, taken |-> <<>>]

CompressUnused ==
    /\ zsrc = <<>>
    /\ zpos = 0
    /\ zgw = NoWriter
    /\ ztodo = <<>>
    /\ zpipe = NoPipe
    /\ zpc = "unused"
    /\ zout = <<>>
    /\ zend = "none"
    /\ zn = [writes |-> 0, reads |-> 0, short |-> FALSE]

NoPrev == [ran |-> FALSE, listed |-> <<>>, failed |-> {}]

NoBackupKey == <<>>

NoStore ==
    [dbs |-> <<>>, i |-> 0, pc |-> "unused", key |-> NoBackupKey, todo |-> <<>>,
     earlier |-> {}, uploads |-> <<>>, lists |-> <<>>, deletes |-> <<>>]

OthersUnused ==
    RunUnused /\ CryptoUnused /\ CompressUnused /\ prev = NoPrev /\ store = NoStore

PipelineUnused ==
    /\ cfg = [Compression |-> FALSE, Encryption |-> FALSE]
    /\ ctx = "live"
    /\ db = [Type |-> "postgres", Name |-> "app"]
    /\ pc = "unused"
    /\ pb = NoFrame
    /\ proc = NoProc
    /\ streams = [s \in {"src", "p1", "p2"} |-> OpenStream]
    /\ errPipe = 0
    /\ gz = NoGz
    /\ enc = NoEnc
    /\ seen = [r \in {"gz", "enc", "main"} |-> "none"]
    /\ tempDir = "none"
    /\ uploadCalls = <<>>
    /\ failedDatabases = <<>>
    /\ allBackupKeys = <<>>

----------------------------------------------------------------------------
(* internal/storage: R2Client and BackupObject *)

Keys == 1..MaxKeys
Now0 == MaxDays * HoursPerDay + 1
\* ages an object may have at Now0: fresh, exactly d days, d days and an hour
Ages == {0} \cup {d * HoursPerDay + o : d \in 1..MaxDays, o \in {0, 1}}
LastModifiedValues == {Now0 - a : a \in Ages}

\* BackupObject: Size is never read by the retention code and is left out
BackupObject == [Key : Keys, LastModified : LastModifiedValues]

\* the buckets a run may start from: object keys are unique in a bucket; the
\* code only ever compares keys for equality, so up to renaming the keys are
\* 1..n in the order of their LastModified
Buckets ==
    UNION {{ {[Key |-> k, LastModified |-> f[k]] : k \in 1..n} :
             f \in {g \in [1..n -> LastModifiedValues] :
                        \A i, j \in 1..n : i < j => g[i] <= g[j]} } :
           n \in 0..MaxKeys}

\* ListBackups: every object under the prefix, sorted by LastModified, newest
\* first; sort.Slice is not stable, so ties come in any order
ListBackups(objs) ==
    {s \in [1..Cardinality(objs) -> objs] :
        /\ \A i, j \in DOMAIN s : i # j => s[i] # s[j]
        /\ \A i, j \in DOMAIN s : i < j => ~(s[j].LastModified > s[i].LastModified)}

----------------------------------------------------------------------------
(* internal/storage/retention.go *)

RetentionPolicy == [Days : (-1..MaxDays) \cup {MaxDurationDays + 1}, Count : -1..MaxKeys]

\* a variant that takes any nonzero knob as enabled
IsEnabledNonZero(p) == p.Days # 0 \/ p.Count # 0

IsEnabled(p) == p.Days > 0 \/ p.Count > 0

\* maxAge := time.Duration(policy.Days) * 24 * time.Hour, in hours: the int64
\* product wraps once Days exceeds MaxDurationDays (first wrap only, which is
\* all RetentionPolicy holds); the floor keeps "age > maxAge" exact for ages
\* that are whole hours
MaxAgeHours(days) ==
    IF days <= MaxDurationDays THEN days * HoursPerDay
    ELSE days * HoursPerDay - WrapHours

\* variants of the keep map: one entry short, and taken from the wrong end
KeepSetShort(bs, p) ==
    IF p.Count > 0 /\ Len(bs) > p.Count
        THEN {bs[i].Key : i \in 1..(p.Count - 1)}
    ELSE IF p.Count > 0
        THEN {bs[i].Key : i \in 1..Len(bs)}
    ELSE {}

KeepSetOldest(bs, p) ==
    IF p.Count > 0 /\ Len(bs) > p.Count
        THEN {bs[i].Key : i \in (Len(bs) - p.Count + 1)..Len(bs)}
    ELSE IF p.Count > 0
        THEN {bs[i].Key : i \in 1..Len(bs)}
    ELSE {}

\* the keep map built by lines 59-73
KeepSet(bs, p) ==
    IF p.Count > 0 /\ Len(bs) > p.Count
        THEN {bs[i].Key : i \in 1..Min(p.Count, Len(bs))}
    ELSE IF p.Count > 0
        THEN {bs[i].Key : i \in 1..Len(bs)}
    ELSE {}

\* shouldDelete after lines 77-91
ShouldDelete(b, bs, p, t) ==
    \/ p.Days > 0 /\ (t - b.LastModified) > MaxAgeHours(p.Days)
    \/ p.Count > 0 /\ b.Key \notin KeepSet(bs, p)

\* a variant without the final keep test: the union of the two rules
SelectedUnion(b, bs, p, t) ==
    \/ p.Days > 0 /\ (t - b.LastModified) > MaxAgeHours(p.Days)
    \/ p.Count > 0 /\ b.Key \notin KeepSet(bs, p)

\* the final test of line 95
Selected(b, bs, p, t) ==
    ShouldDelete(b, bs, p, t) /\ (p.Count = 0 \/ b.Key \notin KeepSet(bs, p))

\* determineBackupsToDelete(backups, policy), reading the clock as t
determineBackupsToDelete(bs, p, t) ==
    LET Test(b) == Selected(b, bs, p, t) IN SelectSeq(bs, Test)

EmptyResult == [DeletedCount |-> 0, DeletedKeys |-> <<>>, Errors |-> <<>>]


(* ApplyRetention: one call on a bucket *)

RetentionInit ==
    /\ policy \in RetentionPolicy
    /\ objects \in Buckets
    /\ now = Now0
    /\ rpc = "idle"
    /\ backups = <<>>
    /\ toDelete = <<>>
    /\ di = 1
    /\ result = EmptyResult
    /\ retErr = FALSE
    /\ listCalls = 0
    /\ deleteCalls = <<>>
    /\ evals = <<>>
    /\ PipelineUnused
    /\ OthersUnused

\* lines 26-28: a disabled policy returns an empty result at once
ApplyRetentionDisabled ==
    /\ rpc = "idle"
    /\ ~IsEnabled(policy)
    /\ rpc' = "returned"
    /\ UNCHANGED <<policy, now, objects, backups, toDelete, di, result, retErr,
                   listCalls, deleteCalls, evals, pvars, ovars>>

\* lines 30-33: ListBackups fails, ApplyRetention returns (nil, err)
ListBackupsFails ==
    /\ rpc = "idle"
    /\ IsEnabled(policy)
    /\ listCalls' = listCalls + 1
    /\ retErr' = TRUE
    /\ rpc' = "returned"
    /\ UNCHANGED <<policy, now, objects, backups, toDelete, di, result,
                   deleteCalls, evals, pvars, ovars>>

\* (a variant that decides on the listing of the call before, if there is one)
ListAndDecideCached ==
    /\ rpc = "idle"
    /\ IsEnabled(policy)
    /\ listCalls' = listCalls + 1
    /\ \E bs \in (IF prev.listed # <<>> THEN {prev.listed} ELSE ListBackups(objects)) :
        /\ backups' = bs
        /\ toDelete' = determineBackupsToDelete(bs, policy, now)
    /\ result' = EmptyResult
    /\ rpc' = "deleting"
    /\ UNCHANGED <<policy, now, objects, di, retErr, deleteCalls, evals, pvars, ovars>>

\* lines 30-39: the listing succeeds and the decision is computed, once
ListAndDecide ==
    /\ rpc = "idle"
    /\ IsEnabled(policy)
    /\ listCalls' = listCalls + 1
    /\ \E bs \in ListBackups(objects) :
        /\ backups' = bs
        /\ toDelete' = determineBackupsToDelete(bs, policy, now)
    /\ result' = EmptyResult
    /\ rpc' = "deleting"
    /\ UNCHANGED <<policy, now, objects, di, retErr, deleteCalls, evals, pvars, ovars>>

\* lines 41-49, one iteration whose client.Delete succeeds
DeleteSucceeds ==
    /\ rpc = "deleting" /\ di <= Len(toDelete)
    /\ LET k == toDelete[di].Key IN
        /\ deleteCalls' = Append(deleteCalls, k)
        /\ objects' = {o \in objects : o.Key # k}
        /\ result' = [result EXCEPT !.DeletedCount = @ + 1,
                                    !.DeletedKeys = Append(@, k)]
    /\ di' = di + 1
    /\ UNCHANGED <<policy, now, rpc, backups, toDelete, retErr, listCalls, evals, pvars, ovars>>

\* a variant that gives up at the first failed Delete
DeleteFailsFast ==
    /\ rpc = "deleting" /\ di <= Len(toDelete)
    /\ LET k == toDelete[di].Key IN
        /\ deleteCalls' = Append(deleteCalls, k)
        /\ result' = [result EXCEPT !.Errors = Append(@, k)]
    /\ di' = Len(toDelete) + 1
    /\ UNCHANGED <<policy, now, objects, rpc, backups, toDelete, retErr,
                   listCalls, evals, pvars, ovars>>

\* lines 41-49, one iteration whose client.Delete fails
DeleteFails ==
    /\ rpc = "deleting" /\ di <= Len(toDelete)
    /\ LET k == toDelete[di].Key IN
        /\ deleteCalls' = Append(deleteCalls, k)
        /\ result' = [result EXCEPT !.Errors = Append(@, k)]
    /\ di' = di + 1
    /\ UNCHANGED <<policy, now, objects, rpc, backups, toDelete, retErr,
                   listCalls, evals, pvars, ovars>>

\* line 52: return result, nil
ApplyRetentionReturns ==
    /\ rpc = "deleting" /\ di > Len(toDelete)
    /\ rpc' = "returned"
    /\ UNCHANGED <<policy, now, objects, backups, toDelete, di, result, retErr,
                   listCalls, deleteCalls, evals, pvars, ovars>>

RetentionNext ==
    \/ ApplyRetentionDisabled
    \/ ListBackupsFails
    \/ ListAndDecide
    \/ DeleteSucceeds
    \/ DeleteFails
    \/ ApplyRetentionReturns

SpecRetention == RetentionInit /\ [][RetentionNext]_vars

(* ApplyRetention call after call on one bucket: every run of the program  *)
(* calls it once per database (main.go:94-111); nothing is kept from one   *)
(* call to the next but the bucket                                         *)

\* the call is over (it returned, or the process was stopped in its loop) and
\* the next one begins, with the same policy and at the same evaluation time
NextCall ==
    /\ rpc \in {"deleting", "returned"}
    /\ prev' = [ran |-> TRUE, listed |-> backups, failed |-> Range(result.Errors)]
    /\ rpc' = "idle"
    /\ backups' = <<>>
    /\ toDelete' = <<>>
    /\ di' = 1
    /\ result' = EmptyResult
    /\ retErr' = FALSE
    /\ listCalls' = 0
    /\ deleteCalls' = <<>>
    /\ UNCHANGED <<policy, now, objects, evals, pvars, uvars, cvars, zvars, store>>

RepeatNext == RetentionNext \/ NextCall

SpecRepeat == RetentionInit /\ [][RepeatNext]_vars

\* calls keep coming and every step that stays possible is taken; a Delete
\* that can be tried again and again succeeds in the end, and so does the
\* listing
SpecRepeatLive ==
    /\ SpecRepeat
    /\ WF_vars(RepeatNext)
    /\ SF_vars(DeleteSucceeds)
    /\ SF_vars(ListAndDecide)

----------------------------------------------------------------------------
(* determineBackupsToDelete as a function: one inventory and one policy,   *)
(* evaluated repeatedly while the clock runs                               *)

\* what ListBackups can hand to determineBackupsToDelete
Inventories == UNION {ListBackups(objs) : objs \in Buckets}

DecideInit ==
    /\ policy \in RetentionPolicy
    /\ backups \in Inventories
    /\ now = Now0
    /\ evals = <<>>
    /\ objects = Range(backups)
    /\ rpc = "idle"
    /\ toDelete = <<>>
    /\ di = 1
    /\ result = EmptyResult
    /\ retErr = FALSE
    /\ listCalls = 0
    /\ deleteCalls = <<>>
    /\ PipelineUnused
    /\ OthersUnused

\* toDelete := determineBackupsToDelete(backups, policy); line 57 reads the clock
Evaluate ==
    /\ Len(evals) < MaxEvals
    /\ toDelete' = determineBackupsToDelete(backups, policy, now)
    /\ evals' = Append(evals, [now |-> now,
                               toDelete |-> determineBackupsToDelete(backups, policy, now)])
    /\ UNCHANGED <<policy, now, objects, rpc, backups, di, result, retErr,
                   listCalls, deleteCalls, pvars, ovars>>

\* time passes
Tick ==
    /\ now < Now0 + MaxTicks
    /\ now' = now + 1
    /\ UNCHANGED <<policy, objects, rpc, backups, toDelete, di, result, retErr,
                   listCalls, deleteCalls, evals, pvars, ovars>>

DecideNext ==
    \/ Evaluate
    \/ Tick

SpecDecide == DecideInit /\ [][DecideNext]_vars

----------------------------------------------------------------------------
(* One backup attempt: run -> performBackup, the export process and the    *)
(* two stage goroutines                                                    *)

RetentionUnused ==
    /\ policy = [Days |-> 0, Count |-> 0]
    /\ now = Now0
    /\ objects = {}
    /\ rpc = "unused"
    /\ backups = <<>>
    /\ toDelete = <<>>
    /\ di = 1
    /\ result = EmptyResult
    /\ retErr = FALSE
    /\ listCalls = 0
    /\ deleteCalls = <<>>
    /\ evals = <<>>

DatabaseTypes == {"postgres", "mysql", "mongodb"}

BackupInit ==
    /\ cfg \in [Compression : BOOLEAN, Encryption : BOOLEAN]
    /\ ctx = "live"
    /\ db \in [Type : DatabaseTypes, Name : {"app"}]
    /\ pc = "start"
    /\ pb = NoFrame
    /\ proc = NoProc
    /\ streams = [s \in {"src", "p1", "p2"} |-> OpenStream]
    /\ errPipe = 0
    /\ gz = NoGz
    /\ enc = NoEnc
    /\ seen = [r \in {"gz", "enc", "main"} |-> "none"]
    /\ tempDir = "none"
    /\ uploadCalls = <<>>
    /\ failedDatabases = <<>>
    /\ allBackupKeys = <<>>
    /\ RetentionUnused
    /\ OthersUnused

\* main.go:162-202: the file name, as the list of its parts
Extension(type) ==
    CASE type = "postgres" -> ".dump"
      [] type = "mysql" -> ".sql"
      [] type = "mongodb" -> ".tar"

\* time.Now().UTC().Format("20060102-150405"), main.go:163
Timestamp == "20060102-150405"

\* (a variant that names the encryption before the compression)
FilenameEncFirst ==
    <<db.Type, "-", db.Name, "-", Timestamp, Extension(db.Type)>>
        \o (IF cfg.Encryption THEN <<".enc">> ELSE <<>>)
        \o (IF cfg.Compression THEN <<".gz">> ELSE <<>>)

Filename ==
    <<db.Type, "-", db.Name, "-", Timestamp, Extension(db.Type)>>
        \o (IF cfg.Compression THEN <<".gz">> ELSE <<>>)
        \o (IF cfg.Encryption THEN <<".enc">> ELSE <<>>)

\* the stream each reader reads: io.Copy(gw, r) in Compress, io.ReadAll(r) in
\* Encrypt, io.Copy(&buf, dataReader) in performBackup
UpGz == "src"
UpEnc == IF cfg.Compression THEN "p1" ELSE "src"
Final == IF cfg.Encryption THEN "p2" ELSE IF cfg.Compression THEN "p1" ELSE "src"

\* what a Read of stream s can return now: data; io.EOF; an error (the read
\* side was closed, the write side was closed with an error, or, on the OS
\* pipe, the read itself fails)
HasData(s) == streams[s].r = "open" /\ streams[s].buf # <<>>
AtEOF(s) == streams[s].r = "open" /\ streams[s].buf = <<>> /\ streams[s].w = "eof"
AtErr(s) ==
    \/ streams[s].r = "closed"
    \/ streams[s].buf = <<>> /\ streams[s].w = "err"
    \/ s = "src"

Take(s) == [streams EXCEPT ![s].buf = Tail(@)]

\* io.Pipe: a Write returns once its bytes were read or the pipe was closed
WriteDone(p) == streams[p].buf = <<>>

\* PipeReader.Close: a Write in flight returns io.ErrClosedPipe
CloseRead(st) ==
    [st EXCEPT !.r = "closed", !.buf = <<>>, !.failed = (st.buf # <<>>)]

Mongo == db.Type = "mongodb"

(* ---- Export: backup/postgres.go:22-49, backup/mongodb.go:23-70 ---- *)

\* Export returns an error (pipe creation, Start, mongodump); performBackup
\* returns at main.go:156-158
ExportFails ==
    /\ pc = "start"
    /\ pb' = [pb EXCEPT !.err = "export"]
    /\ \E t \in (IF Mongo THEN {"none", "removed"} ELSE {"none"}) : tempDir' = t
    /\ pc' = "returned"
    /\ UNCHANGED <<cfg, ctx, db, proc, streams, errPipe, gz, enc, seen, uploadCalls,
                   failedDatabases, allBackupKeys, rvars, ovars>>

\* Export starts the process; main.go:162-186 names the file and, with
\* compression on, starts the compressor's goroutine
ExportStarts ==
    /\ pc = "start"
    /\ ctx = "live"
    /\ \E n \in 0..MaxChunks, e \in 0..MaxErrChunks :
        proc' = [state |-> "running", total |-> n, left |-> n, errLeft |-> e,
                 exit |-> 0, killed |-> FALSE]
    /\ tempDir' = IF Mongo THEN "exists" ELSE "none"
    /\ gz' = IF cfg.Compression THEN [gz EXCEPT !.pc = "copy"] ELSE gz
    /\ pc' = IF cfg.Encryption THEN "encrypt" ELSE "copy"
    /\ UNCHANGED <<cfg, ctx, db, pb, streams, errPipe, enc, seen, uploadCalls,
                   failedDatabases, allBackupKeys, rvars, ovars>>

(* ---- the export process ---- *)

ProcWriteStdout ==
    /\ proc.state = "running" /\ proc.left > 0
    /\ streams["src"].r = "open" /\ Len(streams["src"].buf) < PipeCap
    /\ streams' = [streams EXCEPT
            !["src"].buf = Append(@, RawChunk(proc.total - proc.left + 1))]
    /\ proc' = [proc EXCEPT !.left = @ - 1]
    /\ UNCHANGED <<cfg, ctx, db, pc, pb, errPipe, gz, enc, seen, tempDir, uploadCalls,
                   failedDatabases, allBackupKeys, rvars, ovars>>

ProcWriteStderr ==
    /\ proc.state = "running" /\ proc.errLeft > 0
    /\ errPipe < PipeCap
    /\ errPipe' = errPipe + 1
    /\ proc' = [proc EXCEPT !.errLeft = @ - 1]
    /\ UNCHANGED <<cfg, ctx, db, pc, pb, streams, gz, enc, seen, tempDir, uploadCalls,
                   failedDatabases, allBackupKeys, rvars, ovars>>

\* the process ends: with status 0 once it wrote everything, with a nonzero
\* status at any time
ProcExits ==
    /\ proc.state = "running"
    /\ \E status \in {0, 1} :
        /\ status = 0 => (proc.left = 0 /\ proc.errLeft = 0)
        /\ proc' = [proc EXCEPT !.state = "exited", !.exit = status]
    /\ streams' = [streams EXCEPT !["src"].w = "eof"]
    /\ UNCHANGED <<cfg, ctx, db, pc, pb, errPipe, gz, enc, seen, tempDir, uploadCalls,
                   failedDatabases, allBackupKeys, rvars, ovars>>

(* ---- cancellation: main.go:22-38, exec.CommandContext ---- *)

\* SIGINT or SIGTERM arrives and main's goroutine calls cancel()
Cancel ==
    /\ ctx = "live"
    /\ ctx' = "cancelled"
    /\ UNCHANGED <<cfg, db, pc, pb, proc, streams, errPipe, gz, enc, seen, tempDir,
                   uploadCalls, failedDatabases, allBackupKeys, rvars, ovars>>

\* (a variant in which the process outlives the cancellation)
ProcIgnoresCancel ==
    /\ ctx = "cancelled"
    /\ proc.state = "running"
    /\ ~proc.killed
    /\ proc' = [proc EXCEPT !.killed = TRUE]
    /\ UNCHANGED <<cfg, ctx, db, pc, pb, streams, errPipe, gz, enc, seen, tempDir,
                   uploadCalls, failedDatabases, allBackupKeys, rvars, ovars>>

\* the command was made with exec.CommandContext: once the context is done
\* the running process is killed; its end closes its side of both pipes
ProcKilled ==
    /\ ctx = "cancelled"
    /\ proc.state = "running"
    /\ proc' = [proc EXCEPT !.state = "exited", !.exit = 1, !.killed = TRUE]
    /\ streams' = [streams EXCEPT !["src"].w = "eof"]
    /\ UNCHANGED <<cfg, ctx, db, pc, pb, errPipe, gz, enc, seen, tempDir,
                   uploadCalls, failedDatabases, allBackupKeys, rvars, ovars>>

(* ---- GzipCompressor.Compress, the goroutine ---- *)

\* io.Copy(gw, r) reads a chunk and gw.Write keeps it in the compressor
GzBuffers ==
    /\ gz.pc = "copy" /\ gz.hdr
    /\ WriteDone("p1") /\ ~streams["p1"].failed
    /\ HasData(UpGz)
    /\ gz' = [gz EXCEPT !.pending = Append(@, Head(streams[UpGz].buf))]
    /\ streams' = Take(UpGz)
    /\ UNCHANGED <<cfg, ctx, db, pc, pb, proc, errPipe, enc, seen, tempDir, uploadCalls,
                   failedDatabases, allBackupKeys, rvars, ovars>>

\* io.Copy(gw, r) reads a chunk and gw.Write writes to the pipe: the gzip
\* header on the first Write, a block of compressed data later
GzEmits ==
    /\ gz.pc = "copy"
    /\ WriteDone("p1") /\ ~streams["p1"].failed
    /\ HasData(UpGz)
    /\ streams["p1"].r = "open"
    /\ LET all == Append(gz.pending, Head(streams[UpGz].buf))
       IN  IF gz.hdr
           THEN /\ streams' = [Take(UpGz) EXCEPT !["p1"].buf = <<GzBlock(all, FALSE)>>]
                /\ gz' = [gz EXCEPT !.pending = <<>>]
           ELSE /\ streams' = [Take(UpGz) EXCEPT !["p1"].buf = <<GzBlock(<<>>, FALSE)>>]
                /\ gz' = [gz EXCEPT !.pending = all, !.hdr = TRUE]
    /\ UNCHANGED <<cfg, ctx, db, pc, pb, proc, errPipe, enc, seen, tempDir, uploadCalls,
                   failedDatabases, allBackupKeys, rvars, ovars>>

\* gw.Write fails because the pipe's read side is closed (before the Write or
\* during it): io.Copy returns the error, lines 27-30 close with it
GzWriteFails ==
    /\ gz.pc = "copy"
    /\ \/ streams["p1"].failed
       \/ WriteDone("p1") /\ HasData(UpGz) /\ streams["p1"].r = "closed"
    /\ streams' = [(IF streams["p1"].failed THEN streams ELSE Take(UpGz))
                       EXCEPT !["p1"].w = "err", !["p1"].failed = FALSE]
    /\ gz' = [gz EXCEPT !.pc = "done"]
    /\ UNCHANGED <<cfg, ctx, db, pc, pb, proc, errPipe, enc, seen, tempDir, uploadCalls,
                   failedDatabases, allBackupKeys, rvars, ovars>>

\* the upstream Read returns io.EOF: io.Copy returns nil and gw.Close() at
\* line 33 writes what is pending and the trailer
GzReadEOF ==
    /\ gz.pc = "copy"
    /\ WriteDone("p1") /\ ~streams["p1"].failed
    /\ AtEOF(UpGz)
    /\ seen' = [seen EXCEPT !["gz"] = "eof"]
    /\ IF streams["p1"].r = "open"
       THEN /\ streams' = [streams EXCEPT !["p1"].buf = <<GzBlock(gz.pending, TRUE)>>]
            /\ gz' = [gz EXCEPT !.pc = "closing", !.pending = <<>>, !.hdr = TRUE]
       ELSE /\ streams' = [streams EXCEPT !["p1"].w = "err"]
            /\ gz' = [gz EXCEPT !.pc = "done"]
    /\ UNCHANGED <<cfg, ctx, db, pc, pb, proc, errPipe, enc, tempDir, uploadCalls,
                   failedDatabases, allBackupKeys, rvars, ovars>>

\* the upstream Read returns an error: io.Copy returns it and gw.Close() at
\* line 28 writes what is pending and the trailer
GzReadErr ==
    /\ gz.pc = "copy"
    /\ WriteDone("p1") /\ ~streams["p1"].failed
    /\ AtErr(UpGz)
    /\ seen' = [seen EXCEPT !["gz"] = "err"]
    /\ IF streams["p1"].r = "open"
       THEN /\ streams' = [streams EXCEPT !["p1"].buf = <<GzBlock(gz.pending, TRUE)>>]
            /\ gz' = [gz EXCEPT !.pc = "failing", !.pending = <<>>, !.hdr = TRUE,
                                !.sawErr = TRUE]
       ELSE /\ streams' = [streams EXCEPT !["p1"].w = "err"]
            /\ gz' = [gz EXCEPT !.pc = "done", !.sawErr = TRUE]
    /\ UNCHANGED <<cfg, ctx, db, pc, pb, proc, errPipe, enc, tempDir, uploadCalls,
                   failedDatabases, allBackupKeys, rvars, ovars>>

\* lines 33-38: gw.Close() returned; pw.Close(), or pw.CloseWithError(err)
\* when its write was cut
GzCloses ==
    /\ gz.pc = "closing"
    /\ WriteDone("p1")
    /\ streams' = [streams EXCEPT
            !["p1"].w = IF streams["p1"].failed THEN "err" ELSE "eof",
            !["p1"].failed = FALSE]
    /\ gz' = [gz EXCEPT !.pc = "done"]
    /\ UNCHANGED <<cfg, ctx, db, pc, pb, proc, errPipe, enc, seen, tempDir, uploadCalls,
                   failedDatabases, allBackupKeys, rvars, ovars>>

\* (a variant that ends the stream cleanly after a failed copy)
GzClosesCleanlyAfterError ==
    /\ gz.pc = "failing"
    /\ WriteDone("p1")
    /\ streams' = [streams EXCEPT !["p1"].w = "eof", !["p1"].failed = FALSE]
    /\ gz' = [gz EXCEPT !.pc = "done"]
    /\ UNCHANGED <<cfg, ctx, db, pc, pb, proc, errPipe, enc, seen, tempDir, uploadCalls,
                   failedDatabases, allBackupKeys, rvars, ovars>>

\* lines 28-30: gw.Close() returned; pw.CloseWithError(err) with io.Copy's error
GzClosesWithError ==
    /\ gz.pc = "failing"
    /\ WriteDone("p1")
    /\ streams' = [streams EXCEPT !["p1"].w = "err", !["p1"].failed = FALSE]
    /\ gz' = [gz EXCEPT !.pc = "done"]
    /\ UNCHANGED <<cfg, ctx, db, pc, pb, proc, errPipe, enc, seen, tempDir, uploadCalls,
                   failedDatabases, allBackupKeys, rvars, ovars>>

(* ---- AESEncryptor.Encrypt, the goroutine ---- *)
\* (performBackup closes the encrypted reader only after it read the stream to
\* its end, so the goroutine's two Writes never fail)

\* line 47: pw.Write(nonce)
EncWritesNonce ==
    /\ enc.pc = "nonce"
    /\ streams' = [streams EXCEPT !["p2"].buf = <<NonceChunk>>]
    /\ enc' = [enc EXCEPT !.pc = "read"]
    /\ UNCHANGED <<cfg, ctx, db, pc, pb, proc, errPipe, gz, seen, tempDir, uploadCalls,
                   failedDatabases, allBackupKeys, rvars, ovars>>

\* line 53: io.ReadAll(r) reads a chunk
EncReads ==
    /\ enc.pc = "read"
    /\ WriteDone("p2")
    /\ HasData(UpEnc)
    /\ enc' = [enc EXCEPT !.plain = Append(@, Head(streams[UpEnc].buf))]
    /\ streams' = Take(UpEnc)
    /\ UNCHANGED <<cfg, ctx, db, pc, pb, proc, errPipe, gz, seen, tempDir, uploadCalls,
                   failedDatabases, allBackupKeys, rvars, ovars>>

\* io.ReadAll(r) reaches io.EOF; lines 60-61 seal and write the ciphertext
EncReadEOF ==
    /\ enc.pc = "read"
    /\ WriteDone("p2")
    /\ AtEOF(UpEnc)
    /\ seen' = [seen EXCEPT !["enc"] = "eof"]
    /\ streams' = [streams EXCEPT !["p2"].buf = <<SealedChunk(enc.plain)>>]
    /\ enc' = [enc EXCEPT !.pc = "closing"]
    /\ UNCHANGED <<cfg, ctx, db, pc, pb, proc, errPipe, gz, tempDir, uploadCalls,
                   failedDatabases, allBackupKeys, rvars, ovars>>

\* io.ReadAll(r) returns an error; line 55 closes the pipe with it
EncReadErr ==
    /\ enc.pc = "read"
    /\ WriteDone("p2")
    /\ AtErr(UpEnc)
    /\ seen' = [seen EXCEPT !["enc"] = "err"]
    /\ streams' = [streams EXCEPT !["p2"].w = "err"]
    /\ enc' = [enc EXCEPT !.pc = "done", !.sawErr = TRUE]
    /\ UNCHANGED <<cfg, ctx, db, pc, pb, proc, errPipe, gz, tempDir, uploadCalls,
                   failedDatabases, allBackupKeys, rvars, ovars>>

\* line 66: pw.Close()
EncCloses ==
    /\ enc.pc = "closing"
    /\ WriteDone("p2")
    /\ streams' = [streams EXCEPT !["p2"].w = "eof"]
    /\ enc' = [enc EXCEPT !.pc = "done"]
    /\ UNCHANGED <<cfg, ctx, db, pc, pb, proc, errPipe, gz, seen, tempDir, uploadCalls,
                   failedDatabases, allBackupKeys, rvars, ovars>>

(* ---- performBackup, main.go:188-232 ---- *)

\* Encrypt fails to draw a nonce (encrypt.go line 39); performBackup returns at
\* main.go:197 without closing the source stream
EncryptFails ==
    /\ pc = "encrypt"
    /\ pb' = [pb EXCEPT !.err = "encrypt"]
    /\ pc' = "return"
    /\ UNCHANGED <<cfg, ctx, db, proc, streams, errPipe, gz, enc, seen, tempDir,
                   uploadCalls, failedDatabases, allBackupKeys, rvars, ovars>>

\* Encrypt returns its reader and starts its goroutine
EncryptStarts ==
    /\ pc = "encrypt"
    /\ enc' = [enc EXCEPT !.pc = "nonce"]
    /\ pc' = "copy"
    /\ UNCHANGED <<cfg, ctx, db, pb, proc, streams, errPipe, gz, seen, tempDir,
                   uploadCalls, failedDatabases, allBackupKeys, rvars, ovars>>

\* main.go:207, io.Copy(&buf, dataReader): a Read returns data
CopyData ==
    /\ pc = "copy"
    /\ HasData(Final)
    /\ pb' = [pb EXCEPT !.buf = Append(@, Head(streams[Final].buf))]
    /\ streams' = Take(Final)
    /\ UNCHANGED <<cfg, ctx, db, pc, proc, errPipe, gz, enc, seen, tempDir, uploadCalls,
                   failedDatabases, allBackupKeys, rvars, ovars>>

\* io.Copy returns nil at io.EOF; main.go:215 calls reader.Close()
CopyEOF ==
    /\ pc = "copy"
    /\ AtEOF(Final)
    /\ seen' = [seen EXCEPT !["main"] = "eof"]
    /\ pb' = [pb EXCEPT !.copy = "ok", !.closed = Append(@, "src")]
    /\ pc' = "stderr"
    /\ UNCHANGED <<cfg, ctx, db, proc, streams, errPipe, gz, enc, tempDir, uploadCalls,
                   failedDatabases, allBackupKeys, rvars, ovars>>

\* io.Copy returns an error; main.go:208 calls reader.Close() and drops its
\* result
CopyErr ==
    /\ pc = "copy"
    /\ AtErr(Final)
    /\ seen' = [seen EXCEPT !["main"] = "err"]
    /\ pb' = [pb EXCEPT !.copy = "err", !.aborted = TRUE, !.closed = Append(@, "src")]
    /\ pc' = "stderr"
    /\ UNCHANGED <<cfg, ctx, db, proc, streams, errPipe, gz, enc, tempDir, uploadCalls,
                   failedDatabases, allBackupKeys, rvars, ovars>>

(* ---- cmdReadCloser.Close, mongoReadCloser.Close ---- *)

\* io.ReadAll(c.stderr) reads a chunk
CloseReadsStderr ==
    /\ pc = "stderr"
    /\ errPipe > 0
    /\ errPipe' = errPipe - 1
    /\ pb' = [pb EXCEPT !.stderrBytes = @ + 1]
    /\ UNCHANGED <<cfg, ctx, db, pc, proc, streams, gz, enc, seen, tempDir, uploadCalls,
                   failedDatabases, allBackupKeys, rvars, ovars>>

\* io.ReadAll(c.stderr) returns: the process closed its stderr by exiting
CloseStderrEOF ==
    /\ pc = "stderr"
    /\ errPipe = 0
    /\ proc.state = "exited"
    /\ pc' = "closeStdout"
    /\ UNCHANGED <<cfg, ctx, db, pb, proc, streams, errPipe, gz, enc, seen, tempDir,
                   uploadCalls, failedDatabases, allBackupKeys, rvars, ovars>>

\* (a variant that uploads whatever Close returned after a complete read)
CloseReturnsUnchecked(e, p) ==
    /\ tempDir' = IF Mongo THEN "removed" ELSE tempDir
    /\ pb' = [p EXCEPT !.closeErr = e, !.err = IF p.aborted THEN "read" ELSE @]
    /\ pc' = IF p.aborted THEN "return" ELSE "upload"

\* what performBackup does with the value Close returned: main.go:208-209
\* after a failed read, main.go:215-217 after a complete one; mongoReadCloser
\* removes its directory on every return
CloseReturns(e, p) ==
    /\ tempDir' = IF Mongo THEN "removed" ELSE tempDir
    /\ pb' = [p EXCEPT !.closeErr = e,
                        !.err = IF p.aborted THEN "read"
                                ELSE IF e # "nil" THEN "close" ELSE @]
    /\ pc' = IF p.aborted \/ e # "nil" THEN "return" ELSE "upload"

\* c.ReadCloser.Close() returns an error: Close returns it (postgres.go:103-105,
\* mongodb.go:123-125) and cmd.Wait() is not called
CloseStdoutFails ==
    /\ pc = "closeStdout"
    /\ CloseReturns("pipe", pb)
    /\ UNCHANGED <<cfg, ctx, db, proc, streams, errPipe, gz, enc, seen, uploadCalls,
                   failedDatabases, allBackupKeys, rvars, ovars>>

\* c.ReadCloser.Close() returns nil
CloseStdoutOk ==
    /\ pc = "closeStdout"
    /\ streams' = [streams EXCEPT !["src"] = CloseRead(@)]
    /\ pc' = "wait"
    /\ UNCHANGED <<cfg, ctx, db, pb, proc, errPipe, gz, enc, seen, tempDir, uploadCalls,
                   failedDatabases, allBackupKeys, rvars, ovars>>

\* the error Close returns after c.cmd.Wait()
WaitError ==
    IF proc.exit = 0 THEN "nil"
    ELSE IF pb.stderrBytes > 0 THEN "exit+stderr" ELSE "exit"

\* c.cmd.Wait() returns the exit status; Close wraps a nonzero one
WaitReturns ==
    /\ pc = "wait"
    /\ proc.state = "exited"
    /\ proc' = [proc EXCEPT !.state = "waited"]
    /\ CloseReturns(WaitError, [pb EXCEPT !.waited = TRUE])
    /\ UNCHANGED <<cfg, ctx, db, streams, errPipe, gz, enc, seen, uploadCalls,
                   failedDatabases, allBackupKeys, rvars, ovars>>

(* ---- upload and return ---- *)

\* main.go:221-224
NewR2ClientFails ==
    /\ pc = "upload"
    /\ pb' = [pb EXCEPT !.err = "client"]
    /\ pc' = "return"
    /\ UNCHANGED <<cfg, ctx, db, proc, streams, errPipe, gz, enc, seen, tempDir,
                   uploadCalls, failedDatabases, allBackupKeys, rvars, ovars>>

\* main.go:226-231, r2Client.Upload(ctx, filename, &buf)
Upload ==
    /\ pc = "upload"
    /\ \E ok \in BOOLEAN :
        /\ ok => ctx = "live"
        /\ uploadCalls' = Append(uploadCalls,
                [db |-> db.Name, key |-> Filename, body |-> pb.buf, ok |-> ok])
        /\ pb' = [pb EXCEPT !.err = IF ok THEN "nil" ELSE "upload"]
    /\ pc' = "return"
    /\ UNCHANGED <<cfg, ctx, db, proc, streams, errPipe, gz, enc, seen, tempDir,
                   failedDatabases, allBackupKeys, rvars, ovars>>

\* performBackup returns: the deferred Close of the encrypted reader
\* (main.go:199) and of the compressed reader (main.go:183) run
Return ==
    /\ pc = "return"
    /\ streams' = [s \in {"src", "p1", "p2"} |->
            IF \/ s = "p2" /\ enc.pc # "none"
               \/ s = "p1" /\ cfg.Compression
            THEN CloseRead(streams[s]) ELSE streams[s]]
    /\ pb' = [pb EXCEPT !.closed =
                @ \o (IF enc.pc # "none" THEN <<"p2">> ELSE <<>>)
                  \o (IF cfg.Compression THEN <<"p1">> ELSE <<>>)]
    /\ pc' = "returned"
    /\ UNCHANGED <<cfg, ctx, db, proc, errPipe, gz, enc, seen, tempDir, uploadCalls,
                   failedDatabases, allBackupKeys, rvars, ovars>>

\* run, main.go:70-92
RunRecords ==
    /\ pc = "returned"
    /\ IF pb.err # "nil"
       THEN /\ failedDatabases' = Append(failedDatabases, db.Name)
            /\ UNCHANGED allBackupKeys
       ELSE /\ allBackupKeys' = Append(allBackupKeys, Filename)
            /\ UNCHANGED failedDatabases
    /\ pc' = "done"
    /\ UNCHANGED <<cfg, ctx, db, pb, proc, streams, errPipe, gz, enc, seen, tempDir,
                   uploadCalls, rvars, ovars>>

BackupNext ==
    \/ ExportFails \/ ExportStarts
    \/ ProcWriteStdout \/ ProcWriteStderr \/ ProcExits
    \/ Cancel \/ ProcKilled
    \/ GzBuffers \/ GzEmits \/ GzWriteFails \/ GzReadEOF \/ GzReadErr
    \/ GzCloses \/ GzClosesWithError
    \/ EncWritesNonce \/ EncReads \/ EncReadEOF \/ EncReadErr \/ EncCloses
    \/ EncryptFails \/ EncryptStarts
    \/ CopyData \/ CopyEOF \/ CopyErr
    \/ CloseReadsStderr \/ CloseStderrEOF \/ CloseStdoutFails \/ CloseStdoutOk
    \/ WaitReturns
    \/ NewR2ClientFails \/ Upload \/ Return \/ RunRecords

SpecBackup == BackupInit /\ [][BackupNext]_vars

\* the stream a reader reads
Upstream(rd) ==
    CASE rd = "gz" -> UpGz
      [] rd = "enc" -> UpEnc
      [] rd = "main" -> Final

\* the Go scheduler runs every runnable goroutine and the operating system
\* every runnable process: a behaviour does not stop while a step is possible,
\* not counting the arrival of a signal, a process failing by itself and a
\* Read of the open stdout pipe failing by itself
Scheduled ==
    /\ BackupNext
    /\ ctx' = ctx
    /\ proc'.exit # proc.exit => proc'.killed
    /\ \A rd \in {"gz", "enc", "main"} :
        (seen'[rd] = "err" /\ seen[rd] # "err" /\ Upstream(rd) = "src")
            => streams["src"].r = "closed"

SpecBackupLive == SpecBackup /\ WF_vars(Scheduled)

----------------------------------------------------------------------------
(* A whole run: config.Load, then the loop of run over cfg.Databases.      *)
(* performBackup is followed through its calls to the outside; what the    *)
(* pipeline does in between is the subject of SpecBackup.                  *)

\* ENCRYPTION_KEY: unset, not base64, or base64 of len bytes
KeyLengths == {0, 16, 24, 31, 32, 33, 64}

KeyInputs ==
    {NoKey, [str |-> "text", b64 |-> FALSE, len |-> 0]}
        \cup {[str |-> "text", b64 |-> TRUE, len |-> n] : n \in KeyLengths}

\* DATABASES_JSON entries: a name and an optional prefix
Names == {"app", "web"}

Entries == [Name : Names, Prefix : {<<>>, <<"backups">>}]

\* loadDatabaseConfigs, lines 176-183: the prefix as a path
BackupPrefix(entry) ==
    IF entry.Prefix = <<>> THEN <<"backups", entry.Name>> ELSE entry.Prefix

loadDatabaseConfigs(entries) ==
    [i \in 1..Len(entries) |->
        [Name |-> entries[i].Name, BackupPrefix |-> BackupPrefix(entries[i])]]

\* encrypt.NewAESEncryptor: does it return an encryptor for a key of n bytes
NewAESEncryptor(n) == n = KeySize

\* (a variant that checks the encoding only)
KeyRejectedUndecodable(k) == k.str # "empty" /\ ~k.b64

\* config.Load: the error cases of the encryption key (lines 99-109)
KeyRejected(k) == k.str # "empty" /\ (~k.b64 \/ k.len # 32)

HasEncryption(c) == c.KeyLen > 0

RunInit ==
    /\ env \in [Key : KeyInputs, Valid : BOOLEAN, Retention : BOOLEAN,
                 Databases : UNION {[1..n -> Entries] : n \in 1..MaxDbs}]
    /\ run = [NoRun EXCEPT !.pc = "load"]
    /\ events = <<>>
    /\ running = {}
    /\ inflight = {}
    /\ RetentionUnused
    /\ PipelineUnused
    /\ CryptoUnused
    /\ CompressUnused
    /\ prev = NoPrev
    /\ store = NoStore

Db == run.cfg.Databases[run.i]

Event(op, ok) == [op |-> op, db |-> run.i, prefix |-> Db.BackupPrefix, ok |-> ok]

\* main.go:44-47
LoadFails ==
    /\ run.pc = "load"
    /\ ~env.Valid \/ KeyRejected(env.Key)
    /\ run' = [run EXCEPT !.pc = "returned", !.ret = "err"]
    /\ UNCHANGED <<env, events, running, inflight, rvars, pvars, cvars, zvars, prev, store>>

LoadOk ==
    /\ run.pc = "load"
    /\ env.Valid /\ ~KeyRejected(env.Key)
    /\ run' = [run EXCEPT
            !.cfg = [KeyLen |-> IF env.Key.str = "empty" THEN 0 ELSE env.Key.len,
                     Retention |-> env.Retention,
                     Databases |-> loadDatabaseConfigs(env.Databases)],
            !.pc = "iter"]
    /\ UNCHANGED <<env, events, running, inflight, rvars, pvars, cvars, zvars, prev, store>>

\* main.go:57-70: performBackup is called for the next database, or the loop
\* ends
NextDatabase ==
    /\ run.pc = "iter"
    /\ IF run.i <= Len(run.cfg.Databases)
       THEN /\ run' = [run EXCEPT !.pc = "export", !.err = "none"]
            /\ events' = Append(events, Event("backup", TRUE))
       ELSE /\ run' = [run EXCEPT !.pc = "finish"]
            /\ events' = events
    /\ UNCHANGED <<env, running, inflight, rvars, pvars, cvars, zvars, prev, store>>

\* performBackup returns err to run
Fails(e) == run' = [run EXCEPT !.pc = "record", !.err = e]

\* main.go:155-158
RunExportFails ==
    /\ run.pc = "export"
    /\ Fails("export")
    /\ UNCHANGED <<env, events, running, inflight, rvars, pvars, cvars, zvars, prev, store>>

RunExportStarts ==
    /\ run.pc = "export"
    /\ running' = running \cup {run.i}
    /\ events' = Append(events, Event("export", TRUE))
    /\ run' = [run EXCEPT !.pc = IF HasEncryption(run.cfg) THEN "encrypt" ELSE "read"]
    /\ UNCHANGED <<env, inflight, rvars, pvars, cvars, zvars, prev, store>>

\* an export process ends by itself
ProcessExits ==
    /\ \E j \in running : running' = running \ {j}
    /\ UNCHANGED <<env, run, events, inflight, rvars, pvars, cvars, zvars, prev, store>>

\* main.go:189-198: NewAESEncryptor or Encrypt returns an error and
\* performBackup returns without closing the source stream
RunEncryptFails ==
    /\ run.pc = "encrypt"
    /\ Fails("encrypt")
    /\ UNCHANGED <<env, events, running, inflight, rvars, pvars, cvars, zvars, prev, store>>

RunEncryptStarts ==
    /\ run.pc = "encrypt"
    /\ NewAESEncryptor(run.cfg.KeyLen)
    /\ run' = [run EXCEPT !.pc = "read"]
    /\ UNCHANGED <<env, events, running, inflight, rvars, pvars, cvars, zvars, prev, store>>

\* main.go:207-217: io.Copy returns (ok or not), then reader.Close() returns
\* (e = "nil" or not), which it does once the process has exited
ReadAndClose ==
    /\ run.pc = "read"
    /\ run.i \notin running
    /\ \E e \in {"nil", "read", "close"} :
        IF e = "nil" THEN run' = [run EXCEPT !.pc = "client"] ELSE Fails(e)
    /\ UNCHANGED <<env, events, running, inflight, rvars, pvars, cvars, zvars, prev, store>>

\* main.go:221-224
RunClientFails ==
    /\ run.pc = "client"
    /\ Fails("client")
    /\ UNCHANGED <<env, events, running, inflight, rvars, pvars, cvars, zvars, prev, store>>

\* main.go:226: the Upload request goes out
UploadBegins ==
    /\ run.pc = "client"
    /\ inflight' = inflight \cup {run.i}
    /\ events' = Append(events, Event("upload", TRUE))
    /\ run' = [run EXCEPT !.pc = "uploading"]
    /\ UNCHANGED <<env, running, rvars, pvars, cvars, zvars, prev, store>>

\* main.go:226-231: Upload returns
UploadReturns ==
    /\ run.pc = "uploading"
    /\ inflight' = inflight \ {run.i}
    /\ \E ok \in BOOLEAN :
        /\ events' = Append(events, Event("uploaded", ok))
        /\ IF ok THEN run' = [run EXCEPT !.pc = "record", !.err = "nil"]
                 ELSE Fails("upload")
    /\ UNCHANGED <<env, running, rvars, pvars, cvars, zvars, prev, store>>

\* (a variant that leaves the loop at the first failure)
RecordFailureStops ==
    /\ run.pc = "record"
    /\ run.err # "nil"
    /\ run' = [run EXCEPT !.failed = Append(@, Db.Name), !.pc = "finish"]
    /\ UNCHANGED <<env, events, running, inflight, rvars, pvars, cvars, zvars, prev, store>>

\* main.go:73-84: performBackup returned an error
RecordFailure ==
    /\ run.pc = "record"
    /\ run.err # "nil"
    /\ run' = [run EXCEPT !.failed = Append(@, Db.Name), !.pc = "notify"]
    /\ UNCHANGED <<env, events, running, inflight, rvars, pvars, cvars, zvars, prev, store>>

\* (a variant that starts the retention run whatever performBackup returned)
RecordSuccessAlways ==
    /\ run.pc = "record"
    /\ run' = [run EXCEPT !.keys = Append(@, <<Db.BackupPrefix, Db.Name>>),
                          !.pc = IF run.cfg.Retention THEN "retention" ELSE "notify"]
    /\ UNCHANGED <<env, events, running, inflight, rvars, pvars, cvars, zvars, prev, store>>

\* main.go:86-95
RecordSuccess ==
    /\ run.pc = "record"
    /\ run.err = "nil"
    /\ run' = [run EXCEPT !.keys = Append(@, <<Db.BackupPrefix, Db.Name>>),
                          !.pc = IF run.cfg.Retention THEN "retention" ELSE "notify"]
    /\ UNCHANGED <<env, events, running, inflight, rvars, pvars, cvars, zvars, prev, store>>

\* main.go:96-98: no client for the retention run, a warning is logged
RetentionClientFails ==
    /\ run.pc = "retention"
    /\ run' = [run EXCEPT !.pc = "notify"]
    /\ UNCHANGED <<env, events, running, inflight, rvars, pvars, cvars, zvars, prev, store>>

\* main.go:100-105, ApplyRetention: ListBackups under the database's prefix;
\* on success determineBackupsToDelete selects n keys
RetentionLists ==
    /\ run.pc = "retention"
    /\ \E ok \in BOOLEAN, n \in 0..MaxDeletes :
        /\ ok \/ n = 0
        /\ events' = Append(events, Event("list", ok))
        /\ run' = [run EXCEPT !.pc = IF ok THEN "delete" ELSE "notify", !.left = n]
    /\ UNCHANGED <<env, running, inflight, rvars, pvars, cvars, zvars, prev, store>>

\* ApplyRetention's loop: one Delete request, failed or not
RetentionDeletes ==
    /\ run.pc = "delete"
    /\ run.left > 0
    /\ \E ok \in BOOLEAN : events' = Append(events, Event("delete", ok))
    /\ run' = [run EXCEPT !.left = @ - 1]
    /\ UNCHANGED <<env, running, inflight, rvars, pvars, cvars, zvars, prev, store>>

\* ApplyRetention returns; main.go:104-110 only log
RetentionReturns ==
    /\ run.pc = "delete"
    /\ run.left = 0
    /\ run' = [run EXCEPT !.pc = "notify"]
    /\ UNCHANGED <<env, running, inflight, events, rvars, pvars, cvars, zvars, prev, store>>

\* main.go:80-83 and 114-116: sendNotifications, whose error is only logged
Notify ==
    /\ run.pc = "notify"
    /\ \E ok \in BOOLEAN : events' = Append(events, Event("notify", ok))
    /\ run' = [run EXCEPT !.pc = "iter", !.i = @ + 1]
    /\ UNCHANGED <<env, running, inflight, rvars, pvars, cvars, zvars, prev, store>>

\* main.go:119-143
RunReturns ==
    /\ run.pc = "finish"
    /\ run' = [run EXCEPT !.pc = "returned",
                          !.ret = IF Len(run.failed) > 0 THEN "err" ELSE "nil"]
    /\ UNCHANGED <<env, events, running, inflight, rvars, pvars, cvars, zvars, prev, store>>

RunNext ==
    \/ LoadFails \/ LoadOk \/ NextDatabase
    \/ RunExportFails \/ RunExportStarts \/ ProcessExits
    \/ RunEncryptFails \/ RunEncryptStarts
    \/ ReadAndClose \/ RunClientFails \/ UploadBegins \/ UploadReturns
    \/ RecordFailure \/ RecordSuccess
    \/ RetentionClientFails \/ RetentionLists \/ RetentionDeletes \/ RetentionReturns
    \/ Notify \/ RunReturns

SpecRun == RunInit /\ [][RunNext]_vars

----------------------------------------------------------------------------
(* The encryptor by itself: AESEncryptor.Encrypt and Decrypt, and the      *)
(* decryption of scripts/decrypt-backup.go.                                *)
(*                                                                         *)
(* A byte of plaintext, ciphertext or nonce is kept as its lowest bit.     *)
(* AES-GCM is kept as what it is used for: a keystream that depends on the *)
(* key and the nonce, and a tag that is a collision-free function of the   *)
(* key, the nonce and the ciphertext.                                      *)

Byte == {0, 1}
\* one bit of a byte inverted
Flip(b) == IF b % 2 = 0 THEN b + 1 ELSE b - 1

EncKeys == {1, 2}

Plaintexts == UNION {[1..n -> Byte] : n \in 0..MaxLen}

\* the values crypto/rand may fill the nonce with
NonceDraws == {[i \in 1..NonceSize |-> IF i = 1 THEN a ELSE 0] : a \in Byte}

RECURSIVE Val(_)
\* a bit string as a number, its length included
Val(bits) == IF bits = <<>> THEN 1 ELSE 2 * Val(Tail(bits)) + Head(bits)

Keystream(k, nonce, i) == (k + Val(nonce) + i) % 2

Xor(k, nonce, data) ==
    [i \in 1..Len(data) |-> (data[i] + Keystream(k, nonce, i)) % 2]

Tag(k, nonce, ct) ==
    LET v == Val(nonce \o ct) * (Cardinality(EncKeys) + 1) + k
    IN  [i \in 1..TagSize |-> 2 * (v * TagSize + (i - 1))]

\* gcm.Seal(nil, nonce, plaintext, nil)
Seal(k, nonce, plaintext) ==
    LET ct == Xor(k, nonce, plaintext) IN ct \o Tag(k, nonce, ct)

\* (a variant that does not check the tag)
OpenUnverified(k, nonce, sealed) ==
    IF Len(sealed) < TagSize THEN [err |-> TRUE, plain |-> <<>>]
    ELSE [err |-> FALSE,
          plain |-> Xor(k, nonce, SubSeq(sealed, 1, Len(sealed) - TagSize))]

\* gcm.Open(nil, nonce, ciphertext, nil)
Open(k, nonce, sealed) ==
    IF Len(sealed) < TagSize THEN [err |-> TRUE, plain |-> <<>>]
    ELSE LET ct == SubSeq(sealed, 1, Len(sealed) - TagSize)
             tag == SubSeq(sealed, Len(sealed) - TagSize + 1, Len(sealed))
         IN  IF tag = Tag(k, nonce, ct)
             THEN [err |-> FALSE, plain |-> Xor(k, nonce, ct)]
             ELSE [err |-> TRUE, plain |-> <<>>]

\* (a variant that seals under a nonce of its own, not the one drawn)
EncryptFixedNonce(k, nonce, plaintext) ==
    LET fixed == [i \in 1..NonceSize |-> 0]
    IN  <<fixed, Seal(k, fixed, plaintext)>>

\* (a variant that writes the nonce after the ciphertext)
EncryptNonceLast(k, nonce, plaintext) == <<Seal(k, nonce, plaintext), nonce>>

\* Encrypt, lines 45-66: the Writes its goroutine makes to the pipe
Encrypt(k, nonce, plaintext) == <<nonce, Seal(k, nonce, plaintext)>>

RECURSIVE ReadAll(_)
\* io.ReadAll of a stream of Writes
ReadAll(writes) ==
    IF writes = <<>> THEN <<>> ELSE Head(writes) \o ReadAll(Tail(writes))

\* io.ReadFull(r, nonce), lines 88-92: it fills the nonce, which takes
\* NonceSize bytes of input; fewer give io.EOF or io.ErrUnexpectedEOF
NonceRead(data) == Len(data) >= NonceSize

\* (a variant that takes a short input for an empty stream)
DecryptShortAsEmpty(k, data) ==
    IF ~NonceRead(data) THEN [err |-> FALSE, out |-> <<>>]
    ELSE LET o == Open(k, SubSeq(data, 1, NonceSize),
                       SubSeq(data, NonceSize + 1, Len(data)))
         IN  IF o.err THEN [err |-> TRUE, out |-> <<>>]
             ELSE [err |-> FALSE, out |-> o.plain]

\* (a variant that hands out the ciphertext as it is)
DecryptNoXor(k, data) ==
    IF Len(data) < NonceSize THEN [err |-> TRUE, out |-> <<>>]
    ELSE LET o == Open(k, SubSeq(data, 1, NonceSize),
                       SubSeq(data, NonceSize + 1, Len(data)))
         IN  IF o.err THEN [err |-> TRUE, out |-> <<>>]
             ELSE [err |-> FALSE,
                   out |-> SubSeq(data, NonceSize + 1, Len(data) - TagSize)]

\* Decrypt, lines 77-113: an error and no stream, or the stream's content
Decrypt(k, data) ==
    IF ~NonceRead(data) THEN [err |-> TRUE, out |-> <<>>]
    ELSE LET o == Open(k, SubSeq(data, 1, NonceSize),
                       SubSeq(data, NonceSize + 1, Len(data)))
         IN  IF o.err THEN [err |-> TRUE, out |-> <<>>]
             ELSE [err |-> FALSE, out |-> o.plain]

\* scripts/decrypt-backup.go, lines 52-77: exit 1, or the output file
ScriptDecrypt(k, data) ==
    IF Len(data) < NonceSize THEN [err |-> TRUE, out |-> <<>>]
    ELSE LET o == Open(k, SubSeq(data, 1, NonceSize),
                       SubSeq(data, NonceSize + 1, Len(data)))
         IN  [err |-> o.err, out |-> o.plain]

\* what a reader of call c's stream gets
Output(c) == ReadAll(Encrypt(ekey, c.nonce, c.plain))

FlipAt(data, pos) ==
    [i \in 1..Len(data) |-> IF i = pos THEN Flip(data[i]) ELSE data[i]]

CryptoInit ==
    /\ ekey \in EncKeys
    /\ calls = <<>>
    /\ dec = NoDecrypt
    /\ RetentionUnused
    /\ PipelineUnused
    /\ RunUnused
    /\ CompressUnused
    /\ prev = NoPrev
    /\ store = NoStore

\* Encrypt is called on a reader of P and draws its nonce (lines 38-41)
EncryptCall ==
    /\ Len(calls) < MaxCalls
    /\ dec = NoDecrypt
    /\ \E P \in Plaintexts, n \in NonceDraws :
        calls' = Append(calls, [plain |-> P, nonce |-> n])
    /\ UNCHANGED <<ekey, dec, rvars, pvars, uvars, zvars, prev, store>>

\* Decrypt is called with some key on the output of the latest Encrypt call, as
\* it is (pos = 0, cut = 0), with one bit flipped, or with its last cut bytes
\* missing; opened: the call got as far as gcm.Open (line 101)
DecryptCall ==
    /\ dec = NoDecrypt
    /\ calls # <<>>
    /\ LET c == Len(calls)
           output == Output(calls[c])
       IN  \E k \in EncKeys, pos \in 0..Len(output), cut \in 0..Len(output) :
            /\ pos = 0 \/ cut = 0
            /\ LET input == SubSeq(FlipAt(output, pos), 1, Len(output) - cut)
                   res == Decrypt(k, input)
               IN  dec' = [call |-> c, key |-> k, flipped |-> pos, cut |-> cut,
                           input |-> input, opened |-> NonceRead(input),
                           err |-> res.err, out |-> res.out]
    /\ UNCHANGED <<ekey, calls, rvars, pvars, uvars, zvars, prev, store>>

CryptoNext == EncryptCall \/ DecryptCall

SpecCrypto == CryptoInit /\ [][CryptoNext]_vars

----------------------------------------------------------------------------
(* The compressor by itself: GzipCompressor.Compress, its goroutine and a  *)
(* consumer that reads the returned stream with buffers of any size.       *)
(*                                                                         *)
(* A gzip stream is kept as its parts: the header, deflate blocks (a       *)
(* length, then that many coded bytes) and the trailer (a checksum and the *)
(* size of the data).                                                      *)

Sources == UNION {[1..n -> Byte] : n \in 0..MaxSrc}

Token(t, v) == [t |-> t, v |-> v]

GzHeader == <<Token("hdr", 1), Token("hdr", 2)>>

DeflateBlock(data) ==
    <<Token("len", Len(data))>> \o [i \in 1..Len(data) |-> Token("dat", data[i])]

GzTrailer(data) == <<Token("sum", Val(data)), Token("size", Len(data))>>

RECURSIVE Inflate(_, _)
Inflate(rest, out) ==
    IF rest = <<>> THEN [err |-> TRUE, out |-> <<>>]
    ELSE IF Head(rest).t = "len"
    THEN LET n == Head(rest).v
         IN  IF Len(rest) < n + 1 \/ \E i \in 2..(n + 1) : rest[i].t # "dat"
             THEN [err |-> TRUE, out |-> <<>>]
             ELSE Inflate(SubSeq(rest, n + 2, Len(rest)),
                          out \o [i \in 1..n |-> rest[i + 1].v])
    ELSE IF rest = GzTrailer(out) THEN [err |-> FALSE, out |-> out]
    ELSE [err |-> TRUE, out |-> <<>>]

\* gzip.NewReader and io.ReadAll of it: the data, or an error
Decompress(bytes) ==
    IF Len(bytes) < Len(GzHeader) \/ SubSeq(bytes, 1, Len(GzHeader)) # GzHeader
    THEN [err |-> TRUE, out |-> <<>>]
    ELSE Inflate(SubSeq(bytes, Len(GzHeader) + 1, Len(bytes)), <<>>)

\* (a variant that puts what it is given in front of what it holds)
BufferedNewestFirst(pending, bytes) == bytes \o pending

\* the compressor's window after a Write of bytes
Buffered(pending, bytes) == pending \o bytes

\* the Writes gw.Close() makes: the header if no Write made it, what is
\* pending, the trailer
ClosingWrites ==
    (IF zgw.hdr THEN <<>> ELSE <<GzHeader>>)
        \o (IF zgw.pending = <<>> THEN <<>> ELSE <<DeflateBlock(zgw.pending)>>)
        \o <<GzTrailer(zgw.taken)>>

CompressInit ==
    /\ zsrc \in Sources
    /\ zpos = 0
    /\ zgw = NoWriter
    /\ ztodo = <<>>
    /\ zpipe = NoPipe
    /\ zpc = "copy"
    /\ zout = <<>>
    /\ zend = "none"
    /\ zn = [writes |-> 0, reads |-> 0, short |-> FALSE]
    /\ RetentionUnused
    /\ PipelineUnused
    /\ RunUnused
    /\ CryptoUnused
    /\ prev = NoPrev
    /\ store = NoStore

\* line 25, io.Copy(gw, r): a Read of the source returns n bytes and gw.Write
\* takes them; the first gw.Write writes the header to the pipe, and any
\* gw.Write may write a block of what the compressor holds
ZCopyRead ==
    /\ zpc = "copy"
    /\ zpos < Len(zsrc)
    /\ \E n \in 1..(Len(zsrc) - zpos), flush \in BOOLEAN :
        LET bytes == SubSeq(zsrc, zpos + 1, zpos + n)
            all == Buffered(zgw.pending, bytes)
            writes == (IF zgw.hdr THEN <<>> ELSE <<GzHeader>>)
                        \o (IF flush THEN <<DeflateBlock(all)>> ELSE <<>>)
        IN  /\ Len(all) > MaxWindow => flush
            /\ zpos' = zpos + n
            /\ zgw' = [hdr |-> TRUE,
                      pending |-> IF flush THEN <<>> ELSE all,
                      taken |-> zgw.taken \o bytes]
            /\ ztodo' = writes
            /\ zpc' = IF writes = <<>> THEN "copy" ELSE "write"
    /\ UNCHANGED <<zsrc, zpipe, zout, zend, zn, rvars, pvars, uvars, cvars, prev, store>>

\* the source is at its end: io.Copy returns nil and line 33 calls gw.Close()
ZCopyEOF ==
    /\ zpc = "copy"
    /\ zpos = Len(zsrc)
    /\ ztodo' = ClosingWrites
    /\ zgw' = [zgw EXCEPT !.hdr = TRUE, !.pending = <<>>]
    /\ zpc' = "close"
    /\ UNCHANGED <<zsrc, zpos, zpipe, zout, zend, zn, rvars, pvars, uvars, cvars, prev, store>>

\* a Read of the source returns an error: io.Copy returns it and line 28
\* calls gw.Close()
ZSourceFails ==
    /\ zpc = "copy"
    /\ ztodo' = ClosingWrites
    /\ zgw' = [zgw EXCEPT !.hdr = TRUE, !.pending = <<>>]
    /\ zpc' = "errclose"
    /\ UNCHANGED <<zsrc, zpos, zpipe, zout, zend, zn, rvars, pvars, uvars, cvars, prev, store>>

\* PipeWriter.Write hands its bytes to the pipe
ZPipeWrite ==
    /\ zpc \in {"write", "close", "errclose"}
    /\ ztodo # <<>>
    /\ ~zpipe.busy /\ zpipe.r = "open"
    /\ zpipe' = [zpipe EXCEPT !.buf = Head(ztodo), !.busy = TRUE]
    /\ ztodo' = Tail(ztodo)
    /\ zn' = [zn EXCEPT !.writes = @ + 1]
    /\ UNCHANGED <<zsrc, zpos, zgw, zpc, zout, zend, rvars, pvars, uvars, cvars, prev, store>>

\* (a variant in which the pipe takes the bytes and lets the writer go on)
ZWriteReturnsAtOnce ==
    /\ zpipe.busy /\ ~zpipe.failed
    /\ zpipe' = [zpipe EXCEPT !.busy = FALSE]
    /\ zpc' = IF zpc = "write" /\ ztodo = <<>> THEN "copy" ELSE zpc
    /\ UNCHANGED <<zsrc, zpos, zgw, ztodo, zout, zend, zn, rvars, pvars, uvars, cvars, prev, store>>

\* PipeWriter.Write returns: all its bytes were read
ZWriteReturns ==
    /\ zpipe.busy /\ zpipe.buf = <<>> /\ ~zpipe.failed
    /\ zpipe' = [zpipe EXCEPT !.busy = FALSE]
    /\ zpc' = IF zpc = "write" /\ ztodo = <<>> THEN "copy" ELSE zpc
    /\ UNCHANGED <<zsrc, zpos, zgw, ztodo, zout, zend, zn, rvars, pvars, uvars, cvars, prev, store>>

\* PipeWriter.Write returns io.ErrClosedPipe (the reader was closed before the
\* Write or during it); io.Copy or gw.Close() returns the error, the gzip.Writer
\* writes no more, and pw.CloseWithError(err) ends the goroutine
ZWriteFails ==
    /\ zpc \in {"write", "close", "errclose"}
    /\ \/ zpipe.failed
       \/ ~zpipe.busy /\ ztodo # <<>> /\ zpipe.r = "closed"
    /\ zpipe' = [zpipe EXCEPT !.busy = FALSE, !.failed = FALSE, !.w = "err"]
    /\ ztodo' = <<>>
    /\ zpc' = "done"
    /\ UNCHANGED <<zsrc, zpos, zgw, zout, zend, zn, rvars, pvars, uvars, cvars, prev, store>>

\* gw.Close() has returned: pw.Close() at line 38, pw.CloseWithError(err) at
\* line 29
ZPipeCloses ==
    /\ zpc \in {"close", "errclose"}
    /\ ztodo = <<>> /\ ~zpipe.busy
    /\ zpipe' = [zpipe EXCEPT !.w = IF zpc = "close" THEN "eof" ELSE "err"]
    /\ zpc' = "done"
    /\ UNCHANGED <<zsrc, zpos, zgw, ztodo, zout, zend, zn, rvars, pvars, uvars, cvars, prev, store>>

\* the consumer's Read with a buffer of b bytes returns what fits of the Write
\* in flight
ZRead ==
    /\ zend = "none"
    /\ zpipe.buf # <<>>
    /\ \E b \in 1..MaxRead :
        LET n == Min(b, Len(zpipe.buf))
        IN  /\ zout' = zout \o SubSeq(zpipe.buf, 1, n)
            /\ zpipe' = [zpipe EXCEPT !.buf = SubSeq(@, n + 1, Len(@))]
            /\ zn' = [zn EXCEPT !.reads = @ + 1,
                                !.short = @ \/ n < Len(zpipe.buf)]
    /\ UNCHANGED <<zsrc, zpos, zgw, ztodo, zpc, zend, rvars, pvars, uvars, cvars, prev, store>>

\* the consumer's Read returns io.EOF
ZReadEOF ==
    /\ zend = "none"
    /\ zpipe.buf = <<>> /\ zpipe.w = "eof"
    /\ zend' = "eof"
    /\ UNCHANGED <<zsrc, zpos, zgw, ztodo, zpipe, zpc, zout, zn, rvars, pvars, uvars, cvars, prev, store>>

\* the consumer's Read returns the error the pipe was closed with
ZReadErr ==
    /\ zend = "none"
    /\ zpipe.buf = <<>> /\ zpipe.w = "err"
    /\ zend' = "err"
    /\ UNCHANGED <<zsrc, zpos, zgw, ztodo, zpipe, zpc, zout, zn, rvars, pvars, uvars, cvars, prev, store>>

\* the consumer closes the stream before its end
ZClose ==
    /\ zend = "none"
    /\ zpipe' = [zpipe EXCEPT !.r = "closed", !.buf = <<>>,
                              !.failed = (zpipe.buf # <<>>)]
    /\ zend' = "closed"
    /\ UNCHANGED <<zsrc, zpos, zgw, ztodo, zpc, zout, zn, rvars, pvars, uvars, cvars, prev, store>>

CompressNext ==
    \/ ZCopyRead \/ ZCopyEOF \/ ZSourceFails
    \/ ZPipeWrite \/ ZWriteReturns \/ ZWriteFails \/ ZPipeCloses
    \/ ZRead \/ ZReadEOF \/ ZReadErr \/ ZClose

SpecCompress == CompressInit /\ [][CompressNext]_vars

----------------------------------------------------------------------------
(* Properties of ApplyRetention call after call (checked under             *)
(* SpecRepeatLive)                                                         *)

KeysOf(bs) == {bs[i].Key : i \in 1..Len(bs)}

\* the listing the current call decided on is the bucket as it was when the
\* call listed it: what is in the bucket now and what the call deleted since
FreshListing ==
    rpc = "deleting" =>
        /\ Range(backups) = objects \cup
                {b \in Range(backups) : b.Key \in Range(result.DeletedKeys)}
        /\ toDelete = determineBackupsToDelete(backups, policy, now)

\* an object that shares its LastModified with another object of the listing
Tied(k, bs) ==
    \E a, b \in Range(bs) : a.Key = k /\ b.Key # k /\ a.LastModified = b.LastModified

\* no listing of the bucket has anything to delete
Settled ==
    \A bs \in ListBackups(objects) : determineBackupsToDelete(bs, policy, now) = <<>>

----------------------------------------------------------------------------
(* Properties of the compressor (checked under SpecCompress)               *)

\* C26: the goroutine of Compress and its consumer meet on an unbuffered pipe.
\* A Write to the pipe returns only when the consumer has read all its bytes
\* or has closed the stream; while a Write is in progress the goroutine
\* neither reads the source nor starts another Write, so the bytes in the
\* pipe always belong to one Write; the gzip.Writer holds no more than its
\* window.  A Read returns bytes only from the Write in progress, io.EOF or
\* an error only once the goroutine has closed the pipe; with no Write in
\* progress and the pipe open the consumer can only wait (or close).
C26_UnbufferedHandoff ==
    /\ [](zpipe.buf # <<>> => zpipe.busy)
    /\ [](zpipe.busy => zpc \in {"write", "close", "errclose"})
    /\ [](Len(zgw.pending) <= MaxWindow /\ Len(ztodo) <= 3)
    /\ []((zend = "none" /\ zpipe.buf = <<>> /\ zpipe.w = "open")
            => ~ENABLED (ZRead \/ ZReadEOF \/ ZReadErr))
    /\ [][(zpipe.busy /\ ~zpipe'.busy) =>
            (zpipe.buf = <<>> \/ zpipe.r = "closed")]_vars
    /\ [][zpipe.busy => (zpos' = zpos /\ zgw' = zgw /\ zn'.writes = zn.writes)]_vars
    /\ [][zout' # zout =>
            /\ zpipe.buf # <<>>
            /\ \E n \in 1..Len(zpipe.buf) :
                /\ zout' = zout \o SubSeq(zpipe.buf, 1, n)
                /\ zpipe'.buf = SubSeq(zpipe.buf, n + 1, Len(zpipe.buf))]_vars
    /\ [][(zend = "none" /\ zend' \in {"eof", "err"}) =>
            (zpipe.w = zend' /\ zpc = "done" /\ zpipe.buf = <<>>)]_vars

\* the goroutine is held in a Write of which the consumer has read a part,
\* with source bytes still unread
C26_Witness ==
    /\ zpipe.busy /\ zpipe.buf # <<>> /\ zn.short
    /\ zpc = "write"
    /\ zpos < Len(zsrc)
    /\ zend = "none"

\* C23: when the consumer of Compress's stream has read to io.EOF, with Reads
\* of any size, what it read decompresses without error to the source's
\* bytes, all of them, once each and in order; so for the empty source.
C23_DecompressesToSource ==
    zend = "eof" => Decompress(zout) = [err |-> FALSE, out |-> zsrc]

\* a source of MaxSrc bytes went through in several blocks, read in pieces
\* smaller than the Writes
C23_Witness ==
    /\ zend = "eof"
    /\ Len(zsrc) = MaxSrc
    /\ zn.short /\ zn.writes > 3
    /\ Decompress(zout).out = zsrc

\* the empty source gave a stream that decompresses to nothing
C23_EmptyWitness ==
    /\ zend = "eof" /\ zsrc = <<>>
    /\ zout # <<>> /\ Decompress(zout) = [err |-> FALSE, out |-> <<>>]

----------------------------------------------------------------------------
(* Properties of the encryptor (checked under SpecCrypto)                  *)

Decrypted == dec.call # 0
Intact == dec.flipped = 0 /\ dec.cut = 0 /\ dec.key = ekey

\* C16: for every plaintext (the empty one included), key and nonce, what a
\* reader of Encrypt's stream gets, given to Decrypt with the same key,
\* yields the plaintext; so does every Encrypt call made and every Decrypt
\* call on an unchanged output with the same key.
C16_RoundTrip ==
    /\ \A P \in Plaintexts, k \in EncKeys, n \in NonceDraws :
            Decrypt(k, ReadAll(Encrypt(k, n, P))) = [err |-> FALSE, out |-> P]
    /\ \A c \in 1..Len(calls) :
            Decrypt(ekey, Output(calls[c])) = [err |-> FALSE, out |-> calls[c].plain]
    /\ (Decrypted /\ Intact) => (~dec.err /\ dec.out = calls[dec.call].plain)

\* a non-empty plaintext came back from Decrypt
C16_Witness ==
    /\ Decrypted /\ Intact
    /\ Len(calls[dec.call].plain) = MaxLen
    /\ ~dec.err /\ dec.out = calls[dec.call].plain

\* C17: Decrypt of an output with one bit flipped (in the nonce, the
\* ciphertext or the tag), or with another key, returns an error; Decrypt
\* returns either an error and nothing, or the complete plaintext that was
\* sealed.
C17_TamperedOrWrongKeyFails ==
    Decrypted =>
        /\ ~Intact => dec.err
        /\ dec.err => dec.out = <<>>
        /\ ~dec.err => (Intact /\ dec.out = calls[dec.call].plain)

\* a flipped bit of the ciphertext, under the right key, was rejected
C17_Witness ==
    /\ Decrypted /\ dec.key = ekey
    /\ dec.flipped > NonceSize
    /\ dec.flipped <= NonceSize + Len(calls[dec.call].plain)
    /\ dec.err /\ dec.out = <<>>

C20_NonceThenSealed ==
    \A c \in 1..Len(calls) :
        LET writes == Encrypt(ekey, calls[c].nonce, calls[c].plain)
            out == ReadAll(writes)
        IN  /\ Len(writes) = 2
            /\ writes[1] = calls[c].nonce /\ Len(writes[1]) = 12
            /\ Len(writes[2]) = Len(calls[c].plain) + 16
            /\ Len(out) = Len(calls[c].plain) + 28
            /\ NonceSize + TagSize = 28
            /\ SubSeq(out, 1, NonceSize) = calls[c].nonce
            /\ SubSeq(out, NonceSize + 1, Len(out))
                    = Seal(ekey, calls[c].nonce, calls[c].plain)
            /\ Decrypt(ekey, out) = [err |-> FALSE, out |-> calls[c].plain]
            /\ ScriptDecrypt(ekey, out) = [err |-> FALSE, out |-> calls[c].plain]

\* an output of 12 + MaxLen + 16 bytes was produced and read back
C20_Witness ==
    /\ calls # <<>>
    /\ Len(calls[Len(calls)].plain) = MaxLen
    /\ Len(Output(calls[Len(calls)])) = MaxLen + 28
    /\ Decrypted /\ Intact /\ dec.input = Output(calls[Len(calls)])

\* inputs too short to hold a nonce
ShortInputs == UNION {[1..n -> {b}] : n \in 0..(NonceSize - 1), b \in Byte}

\* C21: Decrypt takes the first 12 bytes of its input as the nonce; for every
\* input of fewer than 12 bytes, the empty one included, it returns an error
\* without reaching gcm.Open; for every output of Encrypt with one or more
\* trailing bytes removed it returns an error and no plaintext, under any key.
C21_TruncatedInputFails ==
    /\ NonceSize = 12
    /\ \A data \in ShortInputs, k \in EncKeys :
            ~NonceRead(data) /\ Decrypt(k, data) = [err |-> TRUE, out |-> <<>>]
    /\ \A c \in 1..Len(calls), k \in EncKeys, cut \in 1..(MaxLen + NonceSize + TagSize) :
            cut <= Len(Output(calls[c])) =>
                Decrypt(k, SubSeq(Output(calls[c]), 1, Len(Output(calls[c])) - cut))
                    = [err |-> TRUE, out |-> <<>>]
    /\ Decrypted =>
            /\ dec.opened <=> Len(dec.input) >= 12
            /\ dec.cut > 0 => (dec.err /\ dec.out = <<>>)
            /\ ~dec.opened => (dec.err /\ dec.out = <<>>)
            /\ (~dec.err /\ dec.key = ekey) =>
                    /\ SubSeq(dec.input, 1, 12) = calls[dec.call].nonce
                    /\ Len(dec.input) = 12 + Len(dec.out) + TagSize

\* a call on an output cut inside its tag reached gcm.Open and failed there,
\* under the right key
C21_Witness ==
    /\ Decrypted /\ dec.key = ekey
    /\ dec.cut > 0 /\ dec.cut < TagSize
    /\ Len(calls[dec.call].plain) = MaxLen
    /\ dec.opened /\ dec.err /\ dec.out = <<>>

\* a call on fewer than 12 bytes failed before gcm.Open
C21_ShortWitness ==
    /\ Decrypted /\ Len(dec.input) < NonceSize /\ Len(dec.input) > 0
    /\ ~dec.opened /\ dec.err

----------------------------------------------------------------------------
(* Properties of a whole run (checked under SpecRun)                       *)

Loaded == run.pc \notin {"unused", "load"} /\ run.cfg.Databases # <<>>
NumDbs == Len(run.cfg.Databases)

EventIndexes(op) == {k \in 1..Len(events) : events[k].op = op}
\* the databases of the events of one kind, in order
DbsOf(op) ==
    LET sel == SelectSeq(events, LAMBDA e : e.op = op)
    IN  [k \in 1..Len(sel) |-> sel[k].db]

\* performBackup succeeded for database i: its Upload returned nil
Uploaded(i) ==
    \E k \in EventIndexes("uploaded") : events[k].db = i /\ events[k].ok
\* performBackup was called for database i and has returned an error
BackupFailed(i) ==
    /\ i \in Range(DbsOf("backup"))
    /\ ~Uploaded(i)
    /\ (i < run.i \/ run.pc \in {"record", "notify"})

\* the databases whose backup did not succeed, in configuration order
NotUploaded == SelectSeq([i \in 1..NumDbs |-> i], LAMBDA i : ~Uploaded(i))

\* some retention or notification request of database i failed
SideFailure(i) ==
    \E k \in 1..Len(events) :
        events[k].db = i /\ ~events[k].ok /\ events[k].op \in {"list", "delete", "notify"}

\* C11: performBackup is called for the databases 1, 2, ... in configuration
\* order, each once, whatever happened to the earlier ones; when run returns
\* after its loop every database was attempted, run returns an error exactly
\* when the backup of some database failed (failed retention and notification
\* requests do not count), failedDatabases holds exactly the failed
\* databases, and successes + failures is the number of databases.
C11_EveryDatabaseOnce ==
    Loaded =>
        /\ DbsOf("backup") = [k \in 1..Len(DbsOf("backup")) |-> k]
        /\ Len(DbsOf("backup")) \in {run.i - 1, run.i}
        /\ run.pc = "returned" =>
            /\ Len(DbsOf("backup")) = NumDbs
            /\ (run.ret = "err") <=> (\E i \in 1..NumDbs : ~Uploaded(i))
            /\ Len(run.keys) + Len(run.failed) = NumDbs
            /\ run.failed =
                    [k \in 1..Len(NotUploaded) |-> run.cfg.Databases[NotUploaded[k]].Name]

\* the first database failed, the second was still backed up, and its failed
\* list and notification requests left it a success
C11_Witness ==
    /\ run.pc = "returned" /\ NumDbs = 2
    /\ ~Uploaded(1) /\ Uploaded(2) /\ SideFailure(2) /\ SideFailure(1)
    /\ run.ret = "err"
    /\ run.failed = <<run.cfg.Databases[1].Name>>

RetentionOps == {"list", "delete"}

IsPrefix(p, q) == Len(p) <= Len(q) /\ SubSeq(q, 1, Len(p)) = p
\* a request under prefix p reaches objects under prefix q
Overlap(p, q) == IsPrefix(p, q) \/ IsPrefix(q, p)

\* every list or delete request of a database comes after that database's
\* Upload returned nil
RetentionAfterOwnUpload ==
    \A k \in 1..Len(events) :
        events[k].op \in RetentionOps =>
            \E j \in 1..(k - 1) :
                events[j].op = "uploaded" /\ events[j].ok /\ events[j].db = events[k].db

EventsInOrder ==
    \A j, k \in 1..Len(events) : j < k => events[j].db <= events[k].db

\* C13: the databases are handled strictly one after the other: every request
\* of database i precedes every request of database i+1, at most one export
\* process is running and at most one Upload is in flight at any time.
C13_OneAtATime ==
    /\ EventsInOrder
    /\ Cardinality(running) <= 1
    /\ Cardinality(inflight) <= 1

\* C19: NewAESEncryptor gives an encryptor exactly for keys of 32 bytes; a
\* configured key that is not base64 or does not decode to 32 bytes makes
\* config.Load, and so run, fail before any export process is started and
\* before any storage or notification request is made; a run that got past
\* Load with encryption on holds a key NewAESEncryptor accepts.
C19_InvalidKeyRejectedBeforeIO ==
    /\ \A n \in KeyLengths : NewAESEncryptor(n) <=> (n = 32)
    /\ (env.Key.str = "text" /\ (~env.Key.b64 \/ env.Key.len # 32)) =>
            /\ run.pc \in {"load", "returned"}
            /\ run.pc = "returned" => run.ret = "err"
            /\ events = <<>> /\ running = {} /\ inflight = {}
    /\ (Loaded /\ HasEncryption(run.cfg)) => NewAESEncryptor(run.cfg.KeyLen)

\* a 33-byte key in an otherwise valid configuration ended the run at Load
C19_Witness ==
    /\ env.Valid /\ env.Key.b64 /\ env.Key.len = 33
    /\ run.pc = "returned" /\ run.ret = "err"
    /\ events = <<>>

----------------------------------------------------------------------------
(* Properties of one backup attempt (checked under SpecBackup)             *)

ReadFailed == pb.copy = "err"
CloseFailed == pb.closeErr \notin {"none", "nil"}

\* C1: Upload is called only after the whole transformed stream was read
\* without error (io.Copy saw io.EOF, nothing left in the stream) and the
\* source stream's Close returned nil, and it is given what was read; when the
\* read failed or Close returned an error, no Upload call was made and, once
\* run has handled the result, the database is in failedDatabases and not
\* among the backup keys.
C1_UploadOnlyAfterCleanClose ==
    /\ \A i \in 1..Len(uploadCalls) :
        /\ pb.copy = "ok" /\ seen["main"] = "eof"
        /\ streams[Final].buf = <<>>
        /\ pb.closeErr = "nil"
        /\ uploadCalls[i].body = pb.buf
    /\ pc = "upload" => (pb.copy = "ok" /\ pb.closeErr = "nil")
    /\ (ReadFailed \/ CloseFailed) => uploadCalls = <<>>
    /\ (pc = "done" /\ (ReadFailed \/ CloseFailed)) =>
            (failedDatabases = <<db.Name>> /\ allBackupKeys = <<>>)

\* Upload was called with a complete stream of a process that exited zero
C1_Witness ==
    /\ pc = "done"
    /\ Len(uploadCalls) = 1 /\ uploadCalls[1].body # <<>>
    /\ proc.total = MaxChunks /\ proc.left = 0 /\ proc.exit = 0
    /\ pb.waited

\* C2: once Close of a process-backed stream has returned, the stdout handle
\* is closed and the process was waited for; a nonzero exit status gave a
\* BackupError (with the stderr text when some was captured) and a zero exit
\* status gave nil.
C2_CloseWaitsAndReports ==
    pb.closeErr # "none" =>
        /\ streams["src"].r = "closed"
        /\ pb.waited
        /\ proc.exit # 0 =>
                pb.closeErr = (IF pb.stderrBytes > 0 THEN "exit+stderr" ELSE "exit")
        /\ proc.exit = 0 => pb.closeErr = "nil"

\* C3: a stage whose upstream Read returned an error never ends its output
\* cleanly: its pipe is not closed with io.EOF, after the stage's goroutine
\* ended the pipe is closed with the error, and no reader downstream of the
\* failed Read sees io.EOF (so io.Copy in performBackup does not succeed and
\* nothing is uploaded).
C3_UpstreamErrorNeverCleanEOF ==
    /\ gz.sawErr =>
        /\ streams["p1"].w # "eof"
        /\ gz.pc = "done" => streams["p1"].w = "err"
        /\ seen["enc"] # "eof" /\ seen["main"] # "eof"
    /\ enc.sawErr =>
        /\ streams["p2"].w = "err"
        /\ seen["main"] # "eof"
    /\ (seen["gz"] = "err" \/ seen["enc"] = "err") =>
        (pb.copy # "ok" /\ uploadCalls = <<>>)

\* in the full chain the compressor's read failed after data had flowed, the
\* encryptor and performBackup each saw an error, and the database failed
C3_Witness ==
    /\ cfg.Compression /\ cfg.Encryption
    /\ seen = [r \in {"gz", "enc", "main"} |-> "err"]
    /\ enc.plain # <<>> /\ pb.buf # <<>>
    /\ pc = "done" /\ failedDatabases = <<db.Name>>

Readers == {"gz", "enc", "main"}

\* C14 (as stated): once the cancelled context has killed the running export
\* process, the reads it unblocks end with an error, nothing is uploaded,
\* performBackup's result is a failure, and the attempt comes to its end.
C14_UnblocksWithCancellationError ==
    proc.killed =>
        /\ \A r \in Readers : seen[r] # "eof"
        /\ uploadCalls = <<>>
        /\ pc = "done" => failedDatabases = <<db.Name>>

\* C14 (amended): once the cancelled context has killed the running export
\* process, the process is gone and its stdout is at end-of-stream, so no
\* read of it blocks; nothing is uploaded; when the whole stream was read the
\* failure is the error of Close; performBackup's result is a failure; and
\* the attempt always comes to its end.
C14_CancelEndsBackup ==
    /\ [](proc.killed =>
            /\ proc.state # "running" /\ proc.exit # 0
            /\ streams["src"].w = "eof"
            /\ uploadCalls = <<>> /\ pc # "upload"
            /\ (pb.copy = "ok" /\ pb.closeErr # "none") => CloseFailed
            /\ pc = "done" => (failedDatabases = <<db.Name>> /\ allBackupKeys = <<>>))
    /\ (proc.killed ~> pc = "done")

\* the process was killed with output left to write, every reader of the
\* full chain saw end-of-stream, and Close reported the process's end
C14_Witness ==
    /\ proc.killed /\ proc.left > 0
    /\ cfg.Compression /\ cfg.Encryption
    /\ seen = [r \in Readers |-> "eof"]
    /\ pb.waited /\ CloseFailed
    /\ pc = "done" /\ failedDatabases = <<db.Name>>

\* C15: MongoDBExporter's temporary directory does not outlive the backup
\* attempt: once run has recorded the attempt's result (success or failure)
\* the directory of a MongoDB database no longer exists, and whenever Close
\* has returned, with nil or with either kind of error, it is gone.
C15_TempDirRemoved ==
    Mongo =>
        /\ pb.closeErr # "none" => tempDir = "removed"
        /\ pc = "done" => tempDir # "exists"

\* what was uploaded, read as a file: sealed (the nonce, then one sealed text),
\* a gzip stream (blocks, the last one ending it), or neither
IsSealed(body) ==
    /\ Len(body) = 2
    /\ body[1] = NonceChunk
    /\ body[2].kind = "sealed"
Unseal(body) == body[2].body

IsGzip(chunks) ==
    /\ chunks # <<>>
    /\ \A i \in 1..Len(chunks) :
            chunks[i].kind = "gz" /\ (chunks[i].last <=> i = Len(chunks))

RECURSIVE Gunzip(_)
Gunzip(chunks) ==
    IF chunks = <<>> THEN <<>> ELSE Head(chunks).body \o Gunzip(Tail(chunks))

\* the n chunks the export process writes, in the order it writes them
RawExport(n) == [i \in 1..n |-> RawChunk(i)]

\* C22: for every setting of the two switches, the name given to Upload is
\* <dbtype>-<dbname>-<timestamp>.<ext>, then ".gz" iff the bytes are a gzip
\* stream, then ".enc" iff the bytes are sealed; the bytes are sealed iff
\* encryption is on and what is sealed (the bytes themselves without
\* encryption) is a gzip stream iff compression is on; under these layers is
\* the export's output, whole and in order.
C22_NameReflectsTransforms ==
    \A c \in 1..Len(uploadCalls) :
        LET u == uploadCalls[c]
            sealed == IsSealed(u.body)
            inner == IF sealed THEN Unseal(u.body) ELSE u.body
            zipped == IsGzip(inner)
            raw == IF zipped THEN Gunzip(inner) ELSE inner
        IN  /\ u.key = <<db.Type, "-", db.Name, "-", Timestamp, Extension(db.Type)>>
                        \o (IF zipped THEN <<".gz">> ELSE <<>>)
                        \o (IF sealed THEN <<".enc">> ELSE <<>>)
            /\ sealed <=> cfg.Encryption
            /\ zipped <=> cfg.Compression
            /\ raw = RawExport(proc.total)

\* an export of several chunks was uploaded compressed and then encrypted
C22_Witness ==
    /\ uploadCalls # <<>>
    /\ cfg.Compression /\ cfg.Encryption
    /\ proc.total = MaxChunks
    /\ IsSealed(uploadCalls[1].body)
    /\ IsGzip(Unseal(uploadCalls[1].body))
    /\ Gunzip(Unseal(uploadCalls[1].body)) = RawExport(MaxChunks)
    /\ uploadCalls[1].ok

\* C27: every backup attempt comes to its end: performBackup returns, run
\* records the result, and the goroutines of Compress and Encrypt have ended.
C27_EveryAttemptTerminates ==
    <>(/\ pc = "done"
       /\ gz.pc \in {"none", "done"}
       /\ enc.pc \in {"none", "done"})

\* C27, the part that holds: an attempt comes to its end unless io.Copy
\* failed before the process had written everything (Close then waits for the
\* end of stderr while the process waits for room in stdout) or the stderr
\* pipe got full (the process then waits for room in stderr while the
\* readers wait for stdout).
C27_TerminatesUnlessPipeFull ==
    <>(\/ /\ pc = "done"
          /\ gz.pc \in {"none", "done"}
          /\ enc.pc \in {"none", "done"}
       \/ pb.aborted /\ proc.state = "running" /\ proc.left > 0
       \/ errPipe = PipeCap /\ proc.state = "running" /\ proc.errLeft > 0)

\* the streams made for the attempt: the export stream, the compressed stream
\* if Compress was called, the encrypted stream if Encrypt returned one
Created ==
    {"src"} \cup (IF cfg.Compression THEN {"p1"} ELSE {})
            \cup (IF enc.pc # "none" THEN {"p2"} ELSE {})

CloseCalls(s) == Cardinality({i \in 1..Len(pb.closed) : pb.closed[i] = s})

\* C25: when performBackup has returned after Export succeeded, Close() has
\* been called exactly once on every stream made for the attempt.
C25_EachStreamClosedOnce ==
    (pc \in {"returned", "done"} /\ proc.state # "none") =>
        \A s \in Created : CloseCalls(s) = 1

\* C25, without the return at main.go:197: on every other return path after
\* Export succeeded every stream made was closed exactly once; no stream is
\* ever closed twice.
C25_ClosedOnceUnlessEncryptFailed ==
    /\ \A s \in {"src", "p1", "p2"} : CloseCalls(s) <= 1
    /\ (pc \in {"returned", "done"} /\ proc.state # "none" /\ pb.err # "encrypt") =>
            \A s \in Created : CloseCalls(s) = 1
    /\ (pc \in {"returned", "done"} /\ pb.err = "encrypt") =>
            /\ CloseCalls("src") = 0
            /\ cfg.Compression => CloseCalls("p1") = 1

----------------------------------------------------------------------------
(* Properties of the retention decision (checked under SpecDecide)         *)

\* now - lastModified, and "older than d days", in exact arithmetic
Age(b, t) == t - b.LastModified
OlderThan(b, t, d) == Age(b, t) > d * HoursPerDay

Chosen(e) == Range(e.toDelete)

\* C4 as stated: with both knobs positive an object is selected iff it is
\* older than maxAgeDays days or lies outside the maxCount most recent.
C4_UnionOfRules ==
    (policy.Days > 0 /\ policy.Count > 0) =>
        \A e \in Range(evals) : \A i \in 1..Len(backups) :
            backups[i] \in Chosen(e) <=>
                (OlderThan(backups[i], e.now, policy.Days) \/ i > policy.Count)

\* C4, amended: with both knobs positive an object is selected iff it lies
\* outside the maxCount most recent objects; the age rule adds nothing, and an
\* object inside the protected window is kept however old it is.
C4_CountRuleDecides ==
    (policy.Days > 0 /\ policy.Count > 0) =>
        \A e \in Range(evals) : \A i \in 1..Len(backups) :
            backups[i] \in Chosen(e) <=> i > policy.Count

\* both knobs positive, an object inside the window that is older than
\* maxAgeDays days, and an object outside the window: evaluated
C4_Witness ==
    /\ policy.Days > 0 /\ policy.Count > 0 /\ policy.Days <= MaxDays
    /\ Len(backups) > policy.Count
    /\ OlderThan(backups[1], now, policy.Days)
    /\ evals # <<>>
    /\ evals[Len(evals)].toDelete # <<>>

\* C5: with maxCount > 0 none of the first maxCount entries of the inventory
\* (all of them when it has at most maxCount entries) is ever selected,
\* whatever its age and whatever maxAgeDays is.
C5_CountProtectsRecent ==
    policy.Count > 0 =>
        \A e \in Range(evals) : \A i \in 1..Min(policy.Count, Len(backups)) :
            backups[i] \notin Chosen(e)

\* the single old backup of the tests: one object older than maxAgeDays days,
\* maxCount = 1, evaluated and kept
C5_Witness ==
    /\ policy.Count = 1 /\ policy.Days > 0 /\ policy.Days <= MaxDays
    /\ Len(backups) = 1
    /\ OlderThan(backups[1], Now0, policy.Days)
    /\ evals # <<>>

\* C6 as stated: with maxAgeDays = D > 0 and maxCount = 0 the deletion set is
\* exactly the objects whose age is strictly greater than D days.
C6_AgeOnlyExact ==
    (policy.Days > 0 /\ policy.Count = 0) =>
        \A e \in Range(evals) :
            Chosen(e) = {b \in Range(backups) : OlderThan(b, e.now, policy.Days)}

\* C6 for the values of D whose maxAge fits a time.Duration
C6_AgeOnlyExactInRange ==
    (policy.Days > 0 /\ policy.Days <= MaxDurationDays /\ policy.Count = 0) =>
        \A e \in Range(evals) :
            Chosen(e) = {b \in Range(backups) : OlderThan(b, e.now, policy.Days)}

\* an object exactly D days old and one an hour older, evaluated
C6_InRangeWitness ==
    /\ policy.Days > 0 /\ policy.Days <= MaxDurationDays /\ policy.Count = 0
    /\ evals # <<>>
    /\ \E a, b \in Range(backups) :
        /\ Age(a, evals[1].now) = policy.Days * HoursPerDay
        /\ Age(b, evals[1].now) = policy.Days * HoursPerDay + 1
        /\ Chosen(evals[1]) = {b}

\* C7: with maxAgeDays = 0 and maxCount = N > 0 the deletion set is exactly
\* the objects at positions N+1..n of the inventory (none when n <= N).
C7_CountOnlyExact ==
    (policy.Days = 0 /\ policy.Count > 0) =>
        \A e \in Range(evals) :
            e.toDelete = SubSeq(backups, policy.Count + 1, Len(backups))

\* more objects than maxCount, two of them dropped
C7_Witness ==
    /\ policy.Days = 0 /\ policy.Count > 0
    /\ Len(backups) >= policy.Count + 2
    /\ evals # <<>>
    /\ Len(evals[1].toDelete) = Len(backups) - policy.Count

\* C9 as stated: any two evaluations on the same inventory and policy return
\* the same deletion set.
C9_SameDecisionAlways ==
    \A e1, e2 \in Range(evals) : Chosen(e1) = Chosen(e2)

\* C9, amended: two evaluations on the same inventory and policy return the
\* same deletion set when they read the same clock value, or when
\* maxAgeDays <= 0 or maxCount > 0 (the age test then decides nothing).
C9_SameDecisionSameClock ==
    \A e1, e2 \in Range(evals) :
        (e1.now = e2.now \/ policy.Days <= 0 \/ policy.Count > 0) =>
            Chosen(e1) = Chosen(e2)

\* two evaluations an hour apart, both knobs positive, during which an object
\* outside no rule but the age rule crossed the age limit
C9_Witness ==
    /\ Len(evals) >= 2
    /\ evals[1].now # evals[2].now
    /\ policy.Days > 0 /\ policy.Count > 0 /\ policy.Days <= MaxDays
    /\ \E b \in Range(backups) :
        /\ ~OlderThan(b, evals[1].now, policy.Days)
        /\ OlderThan(b, evals[2].now, policy.Days)
    /\ evals[2].toDelete # <<>>

----------------------------------------------------------------------------
(* Properties of ApplyRetention (checked under SpecRetention)              *)

BucketKeys == {o.Key : o \in objects}
DecisionKeys == {toDelete[i].Key : i \in 1..Len(toDelete)}

\* C8: with neither knob positive the decision is empty for every inventory
\* and ApplyRetention returns an empty result without listing or deleting.
C8_DisabledDoesNothing ==
    ~(policy.Days > 0 \/ policy.Count > 0) =>
        /\ \A bs \in ListBackups(objects) :
              determineBackupsToDelete(bs, policy, now) = <<>>
        /\ listCalls = 0
        /\ deleteCalls = <<>>
        /\ rpc = "returned" => (result = EmptyResult /\ ~retErr)

\* a disabled policy with a negative knob, a bucket that holds objects, and
\* ApplyRetention has returned
C8_Witness ==
    /\ policy.Days <= 0 /\ policy.Count < 0
    /\ objects # {}
    /\ rpc = "returned"

\* C10: Delete is attempted exactly once for every object of the decision,
\* whatever the earlier outcomes; at return DeletedKeys are the keys whose
\* delete succeeded, DeletedCount = len(DeletedKeys), Errors has one entry per
\* failed delete, the two add up to the decision, and the call returns no error.
C10_EveryDeleteAttempted ==
    /\ rpc = "deleting" =>
          /\ Len(deleteCalls) = di - 1
          /\ \A i \in 1..Len(deleteCalls) : deleteCalls[i] = toDelete[i].Key
    /\ (rpc = "returned" /\ listCalls = 1 /\ ~retErr) =>
          /\ deleteCalls = [i \in 1..Len(toDelete) |-> toDelete[i].Key]
          /\ Range(result.DeletedKeys) = DecisionKeys \ BucketKeys
          /\ result.DeletedCount = Len(result.DeletedKeys)
          /\ result.DeletedCount = Cardinality(DecisionKeys \ BucketKeys)
          /\ Range(result.Errors) = DecisionKeys \cap BucketKeys
          /\ Len(result.Errors) = Cardinality(DecisionKeys \cap BucketKeys)
          /\ result.DeletedCount + Len(result.Errors) = Len(toDelete)
    /\ retErr => (deleteCalls = <<>> /\ result = EmptyResult)

\* ApplyRetention has returned after a failed delete that was followed by a
\* successful one
C10_Witness ==
    /\ rpc = "returned"
    /\ Len(deleteCalls) >= 2
    /\ deleteCalls[1] \in Range(result.Errors)
    /\ deleteCalls[2] \in Range(result.DeletedKeys)

----------------------------------------------------------------------------
(***************************************************************************)
(* One run on one bucket: the loop of run over cfg.Databases followed      *)
(* through the object keys it writes, lists and deletes.  All databases    *)
(* share the bucket (R2BucketName) and the retention settings; each has    *)
(* its BackupPrefix.  Two readings of the clock that are equal stand for   *)
(* two times within one second, the resolution of the timestamp in the     *)
(* file name; readings that differ give timestamps that differ.            *)
(***************************************************************************)

StoreTypes == {"postgres", "mysql"}

\* DatabaseJSONEntry: type, name and prefix of an entry of DATABASES_JSON
TypedEntries == [Type : StoreTypes, Name : Names, Prefix : {<<>>, <<"backups">>}]

\* loadDatabaseConfigs, lines 185-194: the DatabaseConfig of an entry
DatabaseConfig(e) ==
    [Type |-> e.Type, Name |-> e.Name, BackupPrefix |-> BackupPrefix(e)]

\* cfg.Databases: one to MaxDbs entries, none of them compared with another
Databases ==
    UNION {[1..n -> {DatabaseConfig(e) : e \in TypedEntries}] : n \in 1..MaxDbs}

\* performBackup: fullKey := db.BackupPrefix + filename, the filename being
\* <type>-<name>-<timestamp> and suffixes that the type and the shared
\* settings determine
BackupKey(d, t) ==
    [Prefix |-> d.BackupPrefix, Type |-> d.Type, Name |-> d.Name, Timestamp |-> t]

\* the time of the run before this one
EarlierRun == Now0 - (HoursPerDay + 1)

\* ListObjectsV2 with Prefix: c.prefix
Under(prefix) == {o \in objects : IsPrefix(prefix, o.Key.Prefix)}

HasRetention(p) == p.Days > 0 \/ p.Count > 0

\* the loop of run moves to the next database
LoopContinues(s) ==
    IF s.i < Len(s.dbs)
        THEN [s EXCEPT !.i = s.i + 1, !.pc = "backup", !.key = NoBackupKey, !.todo = <<>>]
    ELSE [s EXCEPT !.pc = "done", !.key = NoBackupKey, !.todo = <<>>]

\* what the actions of a run leave alone
srest == <<policy, rpc, backups, toDelete, di, result, retErr, listCalls,
           deleteCalls, evals, pvars, uvars, cvars, zvars, prev>>

StoreInit ==
    /\ policy \in RetentionPolicy
    /\ now = Now0
    /\ \E dbs \in Databases, who \in SUBSET (1..MaxDbs) :
          /\ who \subseteq DOMAIN dbs
          /\ objects = {[Key |-> BackupKey(dbs[i], EarlierRun),
                         LastModified |-> EarlierRun] : i \in who}
          /\ store = [NoStore EXCEPT
                         !.dbs = dbs, !.i = 1, !.pc = "backup",
                         !.earlier = {[db |-> i, key |-> BackupKey(dbs[i], EarlierRun)] :
                                         i \in who}]
    /\ rpc = "unused"
    /\ backups = <<>>
    /\ toDelete = <<>>
    /\ di = 1
    /\ result = EmptyResult
    /\ retErr = FALSE
    /\ listCalls = 0
    /\ deleteCalls = <<>>
    /\ evals = <<>>
    /\ PipelineUnused
    /\ RunUnused
    /\ CryptoUnused
    /\ CompressUnused
    /\ prev = NoPrev

\* time passes while the run is under way
ClockTicks ==
    /\ store.pc \notin {"unused", "done"}
    /\ now < Now0 + MaxTicks
    /\ now' = now + 1
    /\ UNCHANGED <<objects, store, srest>>

\* performBackup, main.go:162-164: the file name takes the second it is built in
NameBackup ==
    /\ store.pc = "backup"
    /\ store' = [store EXCEPT !.key = BackupKey(store.dbs[store.i], now),
                              !.pc = "upload"]
    /\ UNCHANGED <<now, objects, srest>>

\* performBackup returns an error (main.go:72-84): continue
PerformBackupFails ==
    /\ store.pc \in {"backup", "upload"}
    /\ store' = LoopContinues(store)
    /\ UNCHANGED <<now, objects, srest>>

\* R2Client.Upload succeeds: PutObject replaces whatever the key held;
\* then run goes on to retention if any is configured (main.go:94-95)
UploadStored ==
    /\ store.pc = "upload"
    /\ objects' = {o \in objects : o.Key # store.key}
                      \cup {[Key |-> store.key, LastModified |-> now]}
    /\ LET up == [db |-> store.i, key |-> store.key,
                  over |-> \E o \in objects : o.Key = store.key]
           s == [store EXCEPT !.uploads = Append(@, up)]
       IN  store' = IF HasRetention(policy) THEN [s EXCEPT !.pc = "list"]
                    ELSE LoopContinues(s)
    /\ UNCHANGED <<now, srest>>

\* NewR2Client or ListBackups fails: a warning, and the loop goes on
RetentionListFails ==
    /\ store.pc = "list"
    /\ store' = LoopContinues(store)
    /\ UNCHANGED <<now, objects, srest>>

\* ApplyRetention, lines 30-42: the listing under the database's prefix and
\* the decision on it
ListUnderPrefix ==
    /\ store.pc = "list"
    /\ IsEnabled(policy)
    /\ \E bs \in ListBackups(Under(store.dbs[store.i].BackupPrefix)) :
          LET td == determineBackupsToDelete(bs, policy, now)
              s == [store EXCEPT
                       !.lists = Append(@, [db |-> store.i,
                                            keys |-> {bs[j].Key : j \in 1..Len(bs)}])]
          IN  store' = IF td = <<>> THEN LoopContinues(s)
                       ELSE [s EXCEPT !.pc = "delete",
                                      !.todo = [j \in 1..Len(td) |-> td[j].Key]]
    /\ UNCHANGED <<now, objects, srest>>

\* ApplyRetention, lines 44-50: Delete of the next selected key, which may fail
DeleteSelected ==
    /\ store.pc = "delete"
    /\ store.todo # <<>>
    /\ \E ok \in BOOLEAN :
          /\ objects' = IF ok THEN {o \in objects : o.Key # Head(store.todo)}
                        ELSE objects
          /\ LET s == [store EXCEPT
                          !.deletes = Append(@, [db |-> store.i,
                                                 key |-> Head(store.todo), ok |-> ok]),
                          !.todo = Tail(@)]
             IN  store' = IF s.todo = <<>> THEN LoopContinues(s) ELSE s
    /\ UNCHANGED <<now, srest>>

StoreNext ==
    \/ ClockTicks
    \/ NameBackup
    \/ PerformBackupFails
    \/ UploadStored
    \/ RetentionListFails
    \/ ListUnderPrefix
    \/ DeleteSelected

SpecStore == StoreInit /\ [][StoreNext]_vars

----------------------------------------------------------------------------
(***************************************************************************)
(* Properties of one run on one bucket (checked under SpecStore)           *)
(***************************************************************************)

\* the uploads and the retention requests of the run, as sets
Uploads == {store.uploads[j] : j \in 1..Len(store.uploads)}
Lists == {store.lists[j] : j \in 1..Len(store.lists)}
Deletes == {store.deletes[j] : j \in 1..Len(store.deletes)}

\* the backups there are of a database other than a: of this run and earlier
BackupsOfOthers(a) ==
    {u.key : u \in {v \in Uploads \cup store.earlier : v.db # a}}

PrefixesApart ==
    \A a, b \in DOMAIN store.dbs :
        a # b => ~Overlap(store.dbs[a].BackupPrefix, store.dbs[b].BackupPrefix)

\* C28: in a run with an enabled policy, the key performBackup returned for a
\* database is never among the keys its retention run selects for deletion.
C28_JustUploadedNeverSelected ==
    IsEnabled(policy) =>
        \A d \in Deletes, u \in Uploads : u.db = d.db => d.key # u.key

\* ... which is so when Days fits a time.Duration and no other database
\* writes under the database's prefix
C28_KeptInRangeAndApart ==
    (IsEnabled(policy) /\ policy.Days <= MaxDurationDays /\ PrefixesApart) =>
        \A d \in Deletes, u \in Uploads : u.db = d.db => d.key # u.key

\* C29: the retention run after A's backup lists and deletes only under A's
\* prefix, deletes no object uploaded as a backup of another database B, and
\* B's objects are not in the listing that A's maxCount is applied to.
C29_RetentionIsolated ==
    /\ \A l \in Lists :
          /\ \A k \in l.keys : IsPrefix(store.dbs[l.db].BackupPrefix, k.Prefix)
          /\ l.keys \cap BackupsOfOthers(l.db) = {}
    /\ \A d \in Deletes :
          /\ IsPrefix(store.dbs[d.db].BackupPrefix, d.key.Prefix)
          /\ d.key \notin BackupsOfOthers(d.db)

\* ... which is so when no two prefixes are equal or nested
C29_IsolatedWhenPrefixesApart ==
    PrefixesApart => C29_RetentionIsolated

\* the half that holds always: requests stay under the database's own prefix
C29_OwnPrefixOnly ==
    /\ \A l \in Lists :
          \A k \in l.keys : IsPrefix(store.dbs[l.db].BackupPrefix, k.Prefix)
    /\ \A d \in Deletes : IsPrefix(store.dbs[d.db].BackupPrefix, d.key.Prefix)

\* C30: the keys of the backups uploaded in one run differ pairwise, and no
\* upload of the run replaces an object an earlier upload of the run wrote.
C30_KeysDifferWithinRun ==
    \A i, j \in 1..Len(store.uploads) :
        i < j => store.uploads[i].key # store.uploads[j].key

\* ... which is so when the databases differ in type, name or prefix
C30_DifferWhenEntriesDiffer ==
    (\A a, b \in DOMAIN store.dbs : a # b => store.dbs[a] # store.dbs[b])
        => C30_KeysDifferWithinRun

====
